---------------------------- MODULE Spec2Model ----------------------------
(***************************************************************************)
(* Dialog coordination protocol of AI-Chat-HITL.                           *)
(*                                                                         *)
(* Every editor window runs one extension process (activate in             *)
(* extension.ts) holding one MCPServer object (mcpServer.ts).  The process *)
(* whose server binds the endpoint serves POST /dialog, tools/call,        *)
(* POST /respond and GET /pending; a process whose bind fails polls the    *)
(* endpoint (startClientPolling).  A path is a sequence of one-character   *)
(* strings, so that toLowerCase, replace(/\\/g,'/') and startsWith are     *)
(* computed character by character.                                        *)
(***************************************************************************)
EXTENDS Integers, Sequences, FiniteSets, TLC

(***************************************************************************)
(* Bounds of the model.                                                    *)
(***************************************************************************)
\* number of dialogs submitted in one behaviour
MaxDialogs == 2

\* number of dialogs submitted in a behaviour in which ports change
MaxPortDialogs == 1

\* number of dialogs submitted in a behaviour with browser tabs
MaxLiveDialogs == 2

Procs == {"p1", "p2"}

\* constructor(port: number = 23987), config.get('serverPort', 23987)
DefaultPort == 23987

\* the values the setting ai-chat-hitl.serverPort takes
Ports == { DefaultPort, DefaultPort + 1 }

Ids == 1 .. MaxDialogs

(***************************************************************************)
(* Paths.                                                                  *)
(***************************************************************************)
P_root == << "/" >>
P_a    == << "/", "a" >>
P_Ab   == << "/", "A", "\\", "b" >>
P_x    == << "/", "x" >>
P_ab   == << "/", "a", "/", "b" >>
P_abc  == << "/", "a", "/", "b", "c" >>
P_ab_c == << "/", "a", "/", "b", "/", "c" >>

\* workspace strings an agent passes with a submission
ReqWorkspaces == { P_Ab, P_x }

\* the strings that are keys of the dialogCounts and dialogHistory maps:
\* P_ab is P_Ab in lower case with slashes
Workspaces == ReqWorkspaces \cup { P_ab }

\* vscode.workspace.workspaceFolders of the two windows, in order: one
\* window has no folder open, the other has /a and the filesystem root
WindowFolders == [p \in Procs |-> IF p = "p1" THEN << >> ELSE << P_a, P_root >>]

\* String.prototype.toLowerCase, one character
ToLowerCase(c) ==
    CASE c = "A" -> "a"
      [] c = "B" -> "b"
      [] c = "X" -> "x"
      [] OTHER   -> c

\* s.toLowerCase().replace(/\\/g, '/')
NormalizePath(s) ==
    [i \in DOMAIN s |-> IF ToLowerCase(s[i]) = "\\" THEN "/" ELSE ToLowerCase(s[i])]

\* String.prototype.startsWith
StartsWith(s, t) ==
    /\ Len(t) <= Len(s)
    /\ SubSeq(s, 1, Len(t)) = t

\* a containment test that compares prefixes without the separator
FolderMatches_PlainPrefix(folder, dialogWorkspace) ==
    LET folderPath == NormalizePath(folder)
        dialogPath == NormalizePath(dialogWorkspace)
    IN  \/ folderPath = dialogPath
        \/ StartsWith(folderPath, dialogPath)
        \/ StartsWith(dialogPath, folderPath)

\* the containment test of handleDialogRequest (folder against dialog)
FolderMatches(folder, dialogWorkspace) ==
    LET folderPath == NormalizePath(folder)
        dialogPath == NormalizePath(dialogWorkspace)
    IN  \/ folderPath = dialogPath
        \/ StartsWith(folderPath, dialogPath \o << "/" >>)
        \/ StartsWith(dialogPath, folderPath \o << "/" >>)

\* workspaceFolders && workspaceFolders.length > 0 && !matchesWorkspace
\* makes handleDialogRequest return early; ShouldClaim is its negation
ShouldClaim(folderList, dialogWorkspace) ==
    \/ Len(folderList) = 0
    \/ \E i \in DOMAIN folderList : FolderMatches(folderList[i], dialogWorkspace)

\* the filter of GET /pending?workspace= (dialog against query parameter)
PendingFilter(dialogWorkspace, workspace) ==
    LET dPath == NormalizePath(dialogWorkspace)
        wPath == NormalizePath(workspace)
    IN  \/ dPath = wPath
        \/ StartsWith(dPath, wPath \o << "/" >>)
        \/ StartsWith(wPath, dPath \o << "/" >>)

(***************************************************************************)
(* Resolutions.                                                            *)
(***************************************************************************)
R_continue == [shouldContinue |-> TRUE,  userInput |-> "keep going", attachments |-> << >>]
R_end      == [shouldContinue |-> FALSE, userInput |-> "", attachments |-> << >>]

\* what a POST /respond body or the panel's 'continue' message can carry
Resolutions == { R_continue, R_end }

NoResult == [none |-> TRUE]

NoResponse == "none"

Reasons == { "done" }

(***************************************************************************)
(* State.                                                                  *)
(***************************************************************************)
VARIABLES
    started,             \* activate() has run in the process
    folders,             \* vscode.workspace.workspaceFolders
    openInBrowser,       \* setting ai-chat-hitl.openDialogInBrowser
    server,              \* MCPServer.server: "null", "listening", "failed"
    polling,             \* pollingInterval is set
    configPort,          \* setting ai-chat-hitl.serverPort (ConfigurationTarget.Global)
    port,                \* MCPServer.port, per process
    pollPort,            \* the port captured by the polling closure, per process
    pages,               \* browser tabs showing the page of GET /dialog/<id>
    presented,           \* ids a panel or a browser page has shown to a human
    answered,            \* per process, the ids its human answered in a panel
    globalState,         \* context.globalState['ai-chat-hitl.pendingDialogs']
    dialogs,             \* every PendingDialog object created, by id
    pendingDialogs,      \* MCPServer.pendingDialogs (ids), per process
    dialogCounts,        \* MCPServer.dialogCounts, per process
    dialogHistory,       \* MCPServer.dialogHistory, per process
    microtasks,          \* promise continuations queued by a resolve
    delivered,           \* what the suspended submitter of an id received
    currentPanels,       \* DialogPanel.currentPanels, per process
    pendingDialogStates, \* DialogPanel.pendingDialogStates, per process
    openBrowserWindows,  \* keys of openBrowserWindows opened in the last 5 minutes
    processedDialogIds,  \* processedDialogIds, per process
    claimed,             \* ids a process passed the workspace check for
    okCount,             \* per id, the resolve attempts that returned success
    firstResult,         \* per id, the payload of the first successful resolve
    lastResponse,        \* what the resolve attempt of the last step returned
    rpcLast,             \* the last message answered at once, with its response
    initResult,          \* per process, the id and the result of its first initialize
    wire,                \* per RPC server, its last message and what it wrote back;
                         \* the tools/call of the standalone servers in flight
    sse,                 \* per fan-out implementation, its sseClients and what
                         \* each subscriber has received
    stdin                \* the pipe into the stdio server, its read buffer and the
                         \* messages it has passed to handleRequest

vars == << started, folders, openInBrowser, server, polling,
           configPort, port, pollPort, dialogs,
           pendingDialogs, dialogCounts, dialogHistory, microtasks, delivered,
           currentPanels, pendingDialogStates, openBrowserWindows,
           processedDialogIds, claimed, okCount, firstResult, lastResponse,
           pages, presented, answered, globalState, rpcLast, initResult,
           wire, sse, stdin >>

registryVars == << dialogs, pendingDialogs, dialogCounts, dialogHistory,
                   microtasks, delivered, okCount, firstResult >>

frontEndVars == << currentPanels, pendingDialogStates, openBrowserWindows,
                   processedDialogIds, claimed >>

processVars == << started, folders, openInBrowser, server, polling,
                  configPort, port, pollPort >>

pageVars == << pages, presented, answered, globalState >>

wireVars == << wire, sse, stdin >>

rpcVars == << rpcLast, initResult, wire, sse, stdin >>

NoRpc == [none |-> TRUE]

\* the stdio server (mcp-server.ts), the standalone HTTP/SSE server
\* (mcp-server-sse.ts) and the server embedded in the extension
Handlers == { "stdio", "standalone", "embedded" }

\* the two implementations that mirror responses to GET /sse subscribers
FanOuts == { "standalone", "embedded" }

Subscribers == { "c1", "c2" }

WsKeys == { NormalizePath(w) : w \in ReqWorkspaces }

Init ==
    /\ started = [p \in Procs |-> FALSE]
    /\ folders = WindowFolders
    /\ openInBrowser \in BOOLEAN
    /\ server = [p \in Procs |-> "null"]
    /\ polling = [p \in Procs |-> FALSE]
    /\ configPort = DefaultPort
    /\ port = [p \in Procs |-> DefaultPort]
    /\ pollPort = [p \in Procs |-> DefaultPort]
    /\ dialogs = << >>
    /\ pendingDialogs = [p \in Procs |-> {}]
    /\ dialogCounts = [p \in Procs |-> [w \in Workspaces |-> 0]]
    /\ dialogHistory = [p \in Procs |-> [w \in Workspaces |-> << >>]]
    /\ microtasks = << >>
    /\ delivered = [i \in Ids |-> NoResult]
    /\ currentPanels = [p \in Procs |-> {}]
    /\ pendingDialogStates = [p \in Procs |-> {}]
    /\ openBrowserWindows = [p \in Procs |-> {}]
    /\ processedDialogIds = [p \in Procs |-> {}]
    /\ claimed = [p \in Procs |-> {}]
    /\ okCount = [i \in Ids |-> 0]
    /\ firstResult = [i \in Ids |-> NoResult]
    /\ lastResponse = NoResponse
    /\ pages = {}
    /\ presented = {}
    /\ answered = [p \in Procs |-> {}]
    /\ globalState = {}
    /\ rpcLast = NoRpc
    /\ initResult = [p \in Procs |-> NoRpc]
    /\ wire = [ log |-> << >>, inFlight |-> {} ]
    /\ sse = [ clients  |-> [f \in FanOuts |-> << >>],
               broken   |-> {},
               received |-> [c \in Subscribers |-> << >>] ]
    /\ stdin = [ sent |-> << >>, rest |-> << >>, buffer |-> << >>,
                 dispatched |-> << >>, failed |-> 0 ]

Listening(p) == server[p] = "listening"

\* no continuation is queued and the reply of the last resolve attempt has
\* been written: the event loop takes the next event
Idle == microtasks = << >> /\ lastResponse = NoResponse

(***************************************************************************)
(* activate: bind the endpoint, or start polling when it is in use.        *)
(***************************************************************************)
\* startClientPolling: sets pollingInterval unless no folder is open
StartClientPolling(p) == Len(folders[p]) > 0

\* server.listen(port) fails with EADDRINUSE: another process listens there
InUse(p, n) == \E q \in Procs \ {p} : Listening(q) /\ port[q] = n

\* activate apart from the restored states: new MCPServer(port), start()
ActivateStep(p) ==
    /\ Idle
    /\ ~started[p]
    /\ started' = [started EXCEPT ![p] = TRUE]
    /\ port' = [port EXCEPT ![p] = configPort]
    /\ IF InUse(p, configPort)
       THEN /\ server' = [server EXCEPT ![p] = "failed"]
            /\ polling' = [polling EXCEPT ![p] = StartClientPolling(p)]
            /\ pollPort' = [pollPort EXCEPT ![p] = configPort]
       ELSE /\ server' = [server EXCEPT ![p] = "listening"]
            /\ UNCHANGED << polling, pollPort >>
    /\ UNCHANGED << folders, openInBrowser, configPort >>
    /\ lastResponse' = NoResponse

\* activate in a process that finds no saved states: the stored array is
\* empty until a process has saved one
Activate(p) ==
    /\ ActivateStep(p)
    /\ UNCHANGED registryVars
    /\ UNCHANGED frontEndVars
    /\ UNCHANGED pageVars
    /\ UNCHANGED rpcVars

(***************************************************************************)
(* handleDialogRequest, as a function of the front-end state of process p. *)
(***************************************************************************)
FrontEnd(p) ==
    [ panels   |-> currentPanels[p],
      states   |-> pendingDialogStates[p],
      browser  |-> openBrowserWindows[p],
      claimed  |-> claimed[p] ]

HandleDialogRequest(p, fe, id, workspace, dialogCount) ==
    LET \* DialogPanel.savePendingState(dialog, dialogCount): a Map keyed by id
        saved == [fe EXCEPT !.states = { st \in @ : st.id # id }
                                          \cup { [ id |-> id, dialogCount |-> dialogCount ] }]
        workspaceKey == NormalizePath(workspace)
    IN  IF ~ShouldClaim(folders[p], workspace)
        THEN saved
        ELSE IF openInBrowser
             THEN IF workspaceKey \notin saved.browser
                  THEN [saved EXCEPT !.claimed = @ \cup {id},
                                     !.browser = @ \cup {workspaceKey}]
                  ELSE [saved EXCEPT !.claimed = @ \cup {id}]
             ELSE [saved EXCEPT !.claimed = @ \cup {id},
                                !.panels = @ \cup {id}]

\* the front-end variables of p take the values of record fe
SetFrontEnd(p, fe) ==
    /\ currentPanels' = [currentPanels EXCEPT ![p] = fe.panels]
    /\ pendingDialogStates' = [pendingDialogStates EXCEPT ![p] = fe.states]
    /\ openBrowserWindows' = [openBrowserWindows EXCEPT ![p] = fe.browser]
    /\ claimed' = [claimed EXCEPT ![p] = fe.claimed]

(***************************************************************************)
(* Submission: POST /dialog and callDialogInternal (tools/call).           *)
(***************************************************************************)
\* the sequence number taken from one counter shared by all workspaces
NewDialog_GlobalCount(p, reason, workspace, via) ==
    [ id        |-> Len(dialogs) + 1,
      reason    |-> reason,
      workspace |-> workspace,
      via       |-> via,
      owner     |-> p,
      count     |-> Len(dialogs) + 1,
      history   |-> dialogHistory[p][workspace] ]

NewDialog(p, reason, workspace, via) ==
    [ id        |-> Len(dialogs) + 1,
      reason    |-> reason,
      workspace |-> workspace,
      via       |-> via,
      owner     |-> p,
      \* const currentCount = (this.dialogCounts.get(workspace) || 0) + 1
      count     |-> dialogCounts[p][workspace] + 1,
      \* const history = this.dialogHistory.get(workspace) || []
      history   |-> dialogHistory[p][workspace] ]

SubmitStep(p, reason, workspace, via) ==
    LET dialog == NewDialog(p, reason, workspace, via)
    IN  /\ Idle
        /\ Listening(p)
        /\ Len(dialogs) < MaxDialogs
        /\ dialogCounts' = [dialogCounts EXCEPT ![p][workspace] = dialog.count]
        /\ dialogs' = Append(dialogs, dialog)
        /\ pendingDialogs' = [pendingDialogs EXCEPT ![p] = @ \cup {dialog.id}]
        /\ SetFrontEnd(p, HandleDialogRequest(p, FrontEnd(p), dialog.id, workspace,
                                            dialog.count))
        /\ lastResponse' = NoResponse
        /\ UNCHANGED << dialogHistory, microtasks, delivered, okCount, firstResult >>
        /\ UNCHANGED processedDialogIds
        /\ UNCHANGED processVars

\* a submission; the browser tabs it opens are left out of the state
Submit(p, reason, workspace, via) ==
    /\ SubmitStep(p, reason, workspace, via)
    /\ UNCHANGED pageVars
    /\ UNCHANGED rpcVars

\* POST /dialog {reason, workspace}
PostDialog(p, reason, workspace) == Submit(p, reason, workspace, "http")

\* tools/call AI_chat_HITL -> callDialogInternal(reason, workspace)
CallDialogInternal(p, reason, workspace) == Submit(p, reason, workspace, "mcp")

(***************************************************************************)
(* Resolution.                                                             *)
(***************************************************************************)
\* the history item written without the human's input
HistoryItem_DropsInput(id, result) ==
    [ id        |-> id,
      reason    |-> dialogs[id].reason,
      userInput |-> "",
      continued |-> TRUE ]

HistoryItem(id, result) ==
    [ id        |-> id,    \* stands for the timestamp: one item per resolve
      reason    |-> dialogs[id].reason,
      userInput |-> result.userInput,
      continued |-> result.shouldContinue ]

\* const updatedHistory = [...history, historyItem];
\* this.dialogHistory.set(workspace, updatedHistory)
SaveHistory(id, result) ==
    [dialogHistory EXCEPT ![dialogs[id].owner][dialogs[id].workspace] =
        Append(dialogs[id].history, HistoryItem(id, result))]

\* the promise of the submitter is already resolved
Settled(id) ==
    \/ delivered[id] # NoResult
    \/ \E i \in DOMAIN microtasks : microtasks[i].id = id

\* the promise's resolve: the first call queues the continuation
ResolvePromise(id, result) ==
    IF Settled(id) THEN microtasks
    ELSE Append(microtasks, [id |-> id, result |-> result])

\* a wrapper of callDialogInternal that appends to the history of the
\* workspace as it is at the resolve
DialogResolve_AppendsToCurrent(id, result) ==
    /\ microtasks' = ResolvePromise(id, result)
    /\ dialogHistory' = IF dialogs[id].via = "mcp"
                        THEN [dialogHistory EXCEPT
                                ![dialogs[id].owner][dialogs[id].workspace] =
                                    Append(@, HistoryItem(id, result))]
                        ELSE dialogHistory

\* dialog.resolve(result): callDialogInternal's wrapper saves the history
\* item and then resolves; POST /dialog's is the promise's resolve itself
DialogResolve(id, result) ==
    /\ microtasks' = ResolvePromise(id, result)
    /\ dialogHistory' = IF dialogs[id].via = "mcp"
                        THEN SaveHistory(id, result)
                        ELSE dialogHistory

\* what the resolve attempt returns to its sender
Response(ok) == IF ok THEN "success" ELSE "notFound"

\* bookkeeping of a successful resolve
Succeeded(id, result) ==
    /\ okCount' = [okCount EXCEPT ![id] = IF @ < 2 THEN @ + 1 ELSE @]
    /\ firstResult' = [firstResult EXCEPT ![id] = IF @ = NoResult THEN result ELSE @]

\* respondToDialog without this.pendingDialogs.delete(dialogId)
RespondToDialog_KeepsPending(p, id, result) ==
    IF id \in pendingDialogs[p]
    THEN /\ DialogResolve(id, result)
         /\ UNCHANGED pendingDialogs
         /\ lastResponse' = Response(TRUE)
         /\ Succeeded(id, result)
    ELSE /\ lastResponse' = Response(FALSE)
         /\ UNCHANGED << pendingDialogs, dialogHistory, microtasks, okCount, firstResult >>

\* respondToDialog resolving the dialog object although it is not pending here
RespondToDialog_Unguarded(p, id, result) ==
    IF id \in pendingDialogs[p]
    THEN /\ DialogResolve(id, result)
         /\ pendingDialogs' = [pendingDialogs EXCEPT ![p] = @ \ {id}]
         /\ lastResponse' = Response(TRUE)
         /\ Succeeded(id, result)
    ELSE /\ DialogResolve(id, result)
         /\ lastResponse' = Response(FALSE)
         /\ UNCHANGED << pendingDialogs, okCount, firstResult >>

\* MCPServer.respondToDialog
RespondToDialog(p, id, result) ==
    IF id \in pendingDialogs[p]
    THEN /\ DialogResolve(id, result)
         /\ pendingDialogs' = [pendingDialogs EXCEPT ![p] = @ \ {id}]
         /\ lastResponse' = Response(TRUE)
         /\ Succeeded(id, result)
    ELSE /\ lastResponse' = Response(FALSE)
         /\ UNCHANGED << pendingDialogs, dialogHistory, microtasks, okCount, firstResult >>

\* POST /respond {id | dialogId, shouldContinue, userInput, attachments}
PostRespondStep(p, id, result) ==
    /\ Idle
    /\ Listening(p)
    /\ id \in DOMAIN dialogs
    /\ IF id \in pendingDialogs[p]
       THEN /\ DialogResolve(id, result)
            /\ pendingDialogs' = [pendingDialogs EXCEPT ![p] = @ \ {id}]
            /\ lastResponse' = Response(TRUE)
            /\ Succeeded(id, result)
       ELSE /\ lastResponse' = Response(FALSE)
            /\ UNCHANGED << pendingDialogs, dialogHistory, microtasks, okCount, firstResult >>
    /\ UNCHANGED << dialogs, dialogCounts, delivered >>
    /\ UNCHANGED frontEndVars
    /\ UNCHANGED processVars

\* POST /respond sent by any client of the endpoint
PostRespond(p, id, result) ==
    /\ PostRespondStep(p, id, result)
    /\ UNCHANGED pageVars
    /\ UNCHANGED rpcVars

\* res.writeHead(404); res.end({ error: 'Dialog not found' }): the sender of
\* a refused resolve attempt has its reply (respondToDialog returns false)
EndResponse ==
    /\ microtasks = << >>
    /\ lastResponse # NoResponse
    /\ lastResponse' = NoResponse
    /\ UNCHANGED registryVars
    /\ UNCHANGED frontEndVars
    /\ UNCHANGED processVars
    /\ UNCHANGED pageVars
    /\ UNCHANGED rpcVars

\* the continuation of the submitter: dialogPromise.then(...) of POST /dialog
\* saves the history item and ends the HTTP response; the await in
\* handleMCPRequest resumes and returns the tools/call response
RunMicrotask ==
    /\ microtasks # << >>
    /\ LET m == Head(microtasks)
       IN  /\ dialogHistory' = IF dialogs[m.id].via = "http"
                               THEN SaveHistory(m.id, m.result)
                               ELSE dialogHistory
           /\ delivered' = [delivered EXCEPT ![m.id] = m.result]
    /\ microtasks' = Tail(microtasks)
    /\ lastResponse' = NoResponse
    /\ UNCHANGED << dialogs, pendingDialogs, dialogCounts, okCount, firstResult >>
    /\ UNCHANGED frontEndVars
    /\ UNCHANGED processVars
    /\ UNCHANGED pageVars
    /\ UNCHANGED rpcVars

(***************************************************************************)
(* Editor panel (DialogPanel).                                             *)
(***************************************************************************)
\* webview message 'continue' or 'end': onResponse, then dispose.  The
\* onResponse callback built by handleDialogRequest resolves on the
\* process's own MCPServer object
PanelRespondStep(p, id, result) ==
    /\ Idle
    /\ id \in currentPanels[p]
    /\ RespondToDialog(p, id, result)
    /\ currentPanels' = [currentPanels EXCEPT ![p] = @ \ {id}]
    /\ pendingDialogStates' = [pendingDialogStates EXCEPT ![p] = { st \in @ : st.id # id }]
    /\ UNCHANGED << dialogs, dialogCounts, delivered >>
    /\ UNCHANGED << openBrowserWindows, processedDialogIds, claimed >>
    /\ UNCHANGED processVars

\* the human answers in the panel; who answered what is not recorded
PanelRespond(p, id, result) ==
    /\ PanelRespondStep(p, id, result)
    /\ UNCHANGED pageVars
    /\ UNCHANGED rpcVars

\* the human closes the panel: onDidDispose -> dispose
PanelClose(p, id) ==
    /\ Idle
    /\ id \in currentPanels[p]
    /\ currentPanels' = [currentPanels EXCEPT ![p] = @ \ {id}]
    /\ pendingDialogStates' = [pendingDialogStates EXCEPT ![p] = { st \in @ : st.id # id }]
    /\ UNCHANGED << openBrowserWindows, processedDialogIds, claimed >>
    /\ lastResponse' = NoResponse
    /\ UNCHANGED registryVars
    /\ UNCHANGED processVars
    /\ UNCHANGED pageVars
    /\ UNCHANGED rpcVars

\* five minutes pass since a browser window was opened for a workspace
BrowserWindowAges(p, key) ==
    /\ Idle
    /\ key \in openBrowserWindows[p]
    /\ openBrowserWindows' = [openBrowserWindows EXCEPT ![p] = @ \ {key}]
    /\ UNCHANGED << currentPanels, pendingDialogStates, processedDialogIds, claimed >>
    /\ lastResponse' = NoResponse
    /\ UNCHANGED registryVars
    /\ UNCHANGED processVars
    /\ UNCHANGED pageVars
    /\ UNCHANGED rpcVars

(***************************************************************************)
(* Polling bridge of a process whose bind failed.                          *)
(***************************************************************************)
\* the reply of GET /pending?workspace=w of process q: ids in Map order
PendingFor(q, workspace) ==
    { id \in pendingDialogs[q] :
        Len(workspace) = 0 \/ PendingFilter(dialogs[id].workspace, workspace) }

Min(S) == CHOOSE x \in S : \A y \in S : x <= y

\* for (const dialogInfo of result.dialogs) ... handleDialogRequest(.., [], 1)
RECURSIVE HandleAll(_, _, _)
HandleAll(p, fe, ids) ==
    IF ids = {} THEN fe
    ELSE LET id == Min(ids)
             \* handleDialogRequest(context, dialog, [], 1)
         IN  HandleAll(p, HandleDialogRequest(p, fe, id, dialogs[id].workspace, 1),
                       ids \ {id})

\* a tick that presents every request of the reply, seen or not
PollStep_NoSeenSet(p) ==
    /\ Idle
    /\ polling[p]
    /\ \E q \in Procs :
        /\ Listening(q)
        /\ port[q] = pollPort[p]
        /\ \E fresh \in { PendingFor(q, folders[p][1]) } :
               /\ fresh # {}
               /\ processedDialogIds' = [processedDialogIds EXCEPT ![p] = @ \cup fresh]
               /\ \E fe \in { HandleAll(p, FrontEnd(p), fresh) } :
                      SetFrontEnd(p, fe)
    /\ lastResponse' = NoResponse
    /\ UNCHANGED registryVars
    /\ UNCHANGED processVars

PollStep(p) ==
    /\ Idle
    /\ polling[p]
    /\ \E q \in Procs :
        /\ Listening(q)
        /\ port[q] = pollPort[p]
        /\ \E fresh \in { PendingFor(q, folders[p][1]) \ processedDialogIds[p] } :
               /\ fresh # {}
               /\ processedDialogIds' = [processedDialogIds EXCEPT ![p] = @ \cup fresh]
               /\ \E fe \in { HandleAll(p, FrontEnd(p), fresh) } :
                      SetFrontEnd(p, fe)
    /\ lastResponse' = NoResponse
    /\ UNCHANGED registryVars
    /\ UNCHANGED processVars

\* one tick of the polling interval; browser tabs are left out of the state
PollTick(p) ==
    /\ PollStep(p)
    /\ UNCHANGED pageVars
    /\ UNCHANGED rpcVars

(***************************************************************************)
(* Port changes, restart and stop of the listener.                         *)
(***************************************************************************)
\* config.update('serverPort', newPort, ConfigurationTarget.Global) of
\* configManager.changePort, or the setting edited by hand
ChangePort(n) ==
    /\ Idle
    /\ n # configPort
    /\ configPort' = n
    /\ UNCHANGED << started, folders, openInBrowser, server, polling, port, pollPort >>
    /\ lastResponse' = NoResponse
    /\ UNCHANGED registryVars
    /\ UNCHANGED frontEndVars
    /\ UNCHANGED pageVars
    /\ UNCHANGED rpcVars

\* the server field after this.start(): the http.Server object is assigned
\* before listen() and stays assigned when the bind is refused
Start(p, n) == IF InUse(p, n) THEN "failed" ELSE "listening"

\* setPort whose stop() also forgets the requests of the closed listener
SetPort_DropsPending(p, n) ==
    /\ port' = [port EXCEPT ![p] = n]
    /\ server' = [server EXCEPT ![p] = IF @ = "null" THEN "null" ELSE Start(p, n)]
    /\ pendingDialogs' = [pendingDialogs EXCEPT ![p] = {}]

\* MCPServer.setPort: stop, change the port, start (the promise of start is
\* dropped); with no server object only the port changes
SetPort(p, n) ==
    /\ port' = [port EXCEPT ![p] = n]
    /\ server' = [server EXCEPT ![p] = IF @ = "null" THEN "null" ELSE Start(p, n)]
    /\ UNCHANGED pendingDialogs

\* onDidChangeConfiguration (and the changePort command after its update):
\* mcpServer.setPort(newPort) in a window that runs the extension
OnDidChangeConfiguration(p) ==
    /\ Idle
    /\ started[p]
    /\ port[p] # configPort
    /\ SetPort(p, configPort)
    /\ UNCHANGED << started, folders, openInBrowser, polling, configPort, pollPort >>
    /\ lastResponse' = NoResponse
    /\ UNCHANGED << dialogs, dialogCounts, dialogHistory, microtasks, delivered,
                    okCount, firstResult >>
    /\ UNCHANGED frontEndVars
    /\ UNCHANGED pageVars
    /\ UNCHANGED rpcVars

\* command ai-chat-hitl.restartServer: stop, await start, catch
RestartServer(p) ==
    /\ Idle
    /\ started[p]
    /\ server' = [server EXCEPT ![p] = Start(p, port[p])]
    /\ UNCHANGED << started, folders, openInBrowser, polling, configPort, port, pollPort >>
    /\ lastResponse' = NoResponse
    /\ UNCHANGED registryVars
    /\ UNCHANGED frontEndVars
    /\ UNCHANGED pageVars
    /\ UNCHANGED rpcVars

\* a stop that also forgets the requests that wait at the closed listener
StopServer_ClearsPending(p) ==
    /\ Idle
    /\ started[p]
    /\ server[p] # "null"
    /\ server' = [server EXCEPT ![p] = "null"]
    /\ pendingDialogs' = [pendingDialogs EXCEPT ![p] = {}]
    /\ UNCHANGED << started, folders, openInBrowser, polling, configPort, port, pollPort >>
    /\ lastResponse' = NoResponse
    /\ UNCHANGED << dialogs, dialogCounts, dialogHistory, microtasks, delivered,
                    okCount, firstResult >>
    /\ UNCHANGED frontEndVars
    /\ UNCHANGED pageVars
    /\ UNCHANGED rpcVars

\* command ai-chat-hitl.stopServer: MCPServer.stop
StopServer(p) ==
    /\ Idle
    /\ started[p]
    /\ server[p] # "null"
    /\ server' = [server EXCEPT ![p] = "null"]
    /\ UNCHANGED << started, folders, openInBrowser, polling, configPort, port, pollPort >>
    /\ lastResponse' = NoResponse
    /\ UNCHANGED registryVars
    /\ UNCHANGED frontEndVars
    /\ UNCHANGED pageVars
    /\ UNCHANGED rpcVars

Next ==
    \/ \E p \in Procs : Activate(p)
    \/ \E p \in Procs, r \in Reasons, w \in ReqWorkspaces : PostDialog(p, r, w)
    \/ \E p \in Procs, r \in Reasons, w \in ReqWorkspaces : CallDialogInternal(p, r, w)
    \/ \E p \in Procs, id \in Ids, res \in Resolutions : PostRespond(p, id, res)
    \/ EndResponse
    \/ RunMicrotask
    \/ \E p \in Procs, id \in Ids, res \in Resolutions : PanelRespond(p, id, res)
    \/ \E p \in Procs, id \in Ids : PanelClose(p, id)
    \/ \E p \in Procs, k \in WsKeys : BrowserWindowAges(p, k)
    \/ \E p \in Procs : PollTick(p)

Spec == Init /\ [][Next]_vars

\* the same system with at most MaxPortDialogs dialogs, in which the port
\* setting changes and listeners are restarted and stopped
PortSubmit(p, reason, workspace, via) ==
    /\ Len(dialogs) < MaxPortDialogs
    /\ Submit(p, reason, workspace, via)

NextPort ==
    \/ \E p \in Procs : Activate(p)
    \/ \E p \in Procs, r \in Reasons, v \in {"http", "mcp"} :
          PortSubmit(p, r, P_Ab, v)
    \/ \E p \in Procs, id \in Ids, res \in {R_continue} : PostRespond(p, id, res)
    \/ EndResponse
    \/ RunMicrotask
    \/ \E p \in Procs, id \in Ids, res \in {R_continue} : PanelRespond(p, id, res)
    \/ \E p \in Procs, id \in Ids : PanelClose(p, id)
    \/ \E p \in Procs : PollTick(p)
    \/ \E n \in Ports : ChangePort(n)
    \/ \E p \in Procs : OnDidChangeConfiguration(p)
    \/ \E p \in Procs : RestartServer(p)
    \/ \E p \in Procs : StopServer(p)

(***************************************************************************)
(* Presentation: editor panels and the browser page of GET /dialog/<id>.   *)
(***************************************************************************)
\* the ids for which this step of process p called vscode.env.openExternal:
\* per workspace key not opened in the last five minutes, the first id
\* handled
Opened(p) ==
    LET new == claimed'[p] \ claimed[p]
    IN  IF ~openInBrowser THEN {}
        ELSE { id \in new :
                 /\ NormalizePath(dialogs'[id].workspace) \notin openBrowserWindows[p]
                 /\ \A j \in new :
                       NormalizePath(dialogs'[j].workspace)
                          = NormalizePath(dialogs'[id].workspace) => id <= j }

\* GET /dialog/<id> at the configured port answers with the page (not 404)
Served(id) ==
    \E q \in Procs : /\ Listening(q) /\ port[q] = configPort
                      /\ id \in pendingDialogs'[q]

\* the tab after loading getDialogHtml(pending, dialogId)
NewPage(p, id) ==
    [ opener |-> p, current |-> id, workspace |-> dialogs'[id].workspace,
      state |-> "input" ]

\* what handleDialogRequest shows in this step of process p
Present(p) ==
    LET opened == { id \in Opened(p) : Served(id) }
    IN  /\ pages' = pages \cup { NewPage(p, id) : id \in opened }
        /\ presented' = presented \cup opened
                           \cup (currentPanels'[p] \ currentPanels[p])
        /\ UNCHANGED << answered, globalState >>
        /\ UNCHANGED rpcVars

LiveSubmit(p, reason, workspace, via) ==
    /\ Len(dialogs) < MaxLiveDialogs
    /\ SubmitStep(p, reason, workspace, via)
    /\ Present(p)

LivePollTick(p) ==
    /\ PollStep(p)
    /\ Present(p)

\* respond(shouldContinue) of the page script: POST /respond for
\* currentDialogId; on res.ok the input area is hidden and, for continue,
\* pollForNextDialog starts; on 404 the buttons stay disabled
PageRespond(pg, result) ==
    /\ pg.state = "input"
    /\ \E q \in Procs :
         /\ PostRespondStep(q, pg.current, result)
         /\ pages' = (pages \ {pg}) \cup
               { [pg EXCEPT !.state =
                    IF pg.current \in pendingDialogs[q]
                    THEN (IF result.shouldContinue THEN "polling" ELSE "ended")
                    ELSE "disabled"] }
    /\ UNCHANGED << presented, answered, globalState >>
    /\ UNCHANGED rpcVars

\* one tick of pollForNextDialog: data.dialogs[0] of
\* GET /pending?workspace=<workspace of the page>, when it is another id
PagePoll(pg) ==
    /\ Idle
    /\ pg.state = "polling"
    /\ \E q \in Procs :
         /\ Listening(q)
         /\ LET list == PendingFor(q, pg.workspace)
            IN  /\ list # {}
                /\ Min(list) # pg.current
                /\ pages' = (pages \ {pg}) \cup
                      { [pg EXCEPT !.current = Min(list), !.state = "input"] }
                /\ presented' = presented \cup { Min(list) }
    /\ lastResponse' = NoResponse
    /\ UNCHANGED << answered, globalState >>
    /\ UNCHANGED rpcVars
    /\ UNCHANGED registryVars
    /\ UNCHANGED frontEndVars
    /\ UNCHANGED processVars

NextLive ==
    \/ \E p \in Procs : Activate(p)
    \/ \E p \in Procs, r \in Reasons, w \in ReqWorkspaces, v \in {"http", "mcp"} :
          LiveSubmit(p, r, w, v)
    \/ EndResponse
    \/ RunMicrotask
    \/ \E p \in Procs, id \in Ids, res \in Resolutions : PanelRespond(p, id, res)
    \/ \E p \in Procs, id \in Ids : PanelClose(p, id)
    \/ \E p \in Procs, k \in WsKeys : BrowserWindowAges(p, k)
    \/ \E p \in Procs : LivePollTick(p)
    \/ \E pg \in pages, res \in Resolutions : PageRespond(pg, res)
    \/ \E pg \in pages : PagePoll(pg)

\* timers fire, continuations run, time passes, and the human answers what
\* a page shows
Fairness ==
    /\ WF_vars(EndResponse)
    /\ WF_vars(RunMicrotask)
    /\ \A p \in Procs : WF_vars(LivePollTick(p))
    /\ WF_vars(\E pg \in pages : PagePoll(pg))
    /\ WF_vars(\E p \in Procs, k \in WsKeys : BrowserWindowAges(p, k))
    /\ WF_vars(\E pg \in pages, res \in Resolutions : PageRespond(pg, res))

SpecLive == Init /\ [][NextLive]_vars /\ Fairness

\* dialogs are shown in editor panels
InitPort == Init /\ ~openInBrowser

SpecPort == InitPort /\ [][NextPort]_vars

(***************************************************************************)
(* MCP JSON-RPC: handleMCPRequest of the endpoint (POST /sse, POST         *)
(* /message).  A text is a sequence whose elements are the literal pieces  *)
(* of the template strings and the characters of the values put into them. *)
(***************************************************************************)
\* number of tools/call submissions in a behaviour with JSON-RPC traffic
MaxRpcDialogs == 2

\* request.id; Undefined stands for a message without the member
RpcIds == { "id-1", "id-2" }

Undefined == "undefined"

ToolName == "AI_chat_HITL"

\* params.name of a tools/call that names another tool, or none
OtherTools == { "other_tool", Undefined }

\* methods outside the four cases of the switch
OtherMethods == { "ping", "notifications/initialized" }

\* the messages answered without waiting for a human
RpcRequests ==
    [ method : { "initialize" }, id : RpcIds \cup { Undefined } ]
    \cup [ method : { "initialized", "tools/list" } \cup OtherMethods,
           id : { "id-1", Undefined } ]
    \cup [ method : { "tools/call" }, id : { "id-1", Undefined },
           name : OtherTools ]

\* packageJSON.version of the installed extension (the manifest is not part
\* of the sources; '1.5.0' is the fallback of getExtensionVersion)
PackageVersion == "1.5.0"

\* this.version: the field's initial value until activate calls setVersion
Version(p) == IF started[p] THEN PackageVersion ELSE "1.5.0"

\* the result of initialize with a field taken from the registry
InitializeResult_CountsPending(p) ==
    [ protocolVersion |-> "2024-11-05",
      capabilities    |-> [ tools |-> << >> ],
      serverInfo      |-> [ name |-> ToolName, version |-> Version(p) ],
      pendingDialogs  |-> Cardinality(pendingDialogs[p]) ]

\* case 'initialize': the result member
InitializeResult(p) ==
    [ protocolVersion |-> "2024-11-05",
      capabilities    |-> [ tools |-> << >> ],
      serverInfo      |-> [ name |-> ToolName, version |-> Version(p) ] ]

\* case 'tools/list': the result member
ToolsListResult ==
    [ tools |-> << [ name |-> ToolName,
                     description |-> << "[when to call, zh]", "[when to call, en]" >>,
                     inputSchema |-> [ type |-> "object",
                                       properties |-> { "reason", "workspace" },
                                       required |-> << "reason", "workspace" >> ] ] >> ]

\* return null
NullResponse == [null |-> TRUE]

MethodNotFound == 0 - 32601

ErrorResponse(request, code, message) ==
    [ jsonrpc |-> "2.0", id |-> request.id,
      error |-> [ code |-> code, message |-> message ] ]

ResultResponse(request, result) ==
    [ jsonrpc |-> "2.0", id |-> request.id, result |-> result ]

\* the else branch of tools/call: params.name is not the published tool
UnknownTool(request) ==
    ErrorResponse(request, MethodNotFound, << "Unknown tool: ", request.name >>)

\* the default branch answering a message without an id as well
DefaultBranch_AlwaysAnswers(request) ==
    ErrorResponse(request, MethodNotFound, << "Method not found: ", request.method >>)

\* default: an error when request.id !== undefined, otherwise null
DefaultBranch(request) ==
    IF request.id # Undefined
    THEN ErrorResponse(request, MethodNotFound,
                       << "Method not found: ", request.method >>)
    ELSE NullResponse

\* handleMCPRequest for the messages of RpcRequests
HandleMCPRequest(p, request) ==
    CASE request.method = "initialize"  -> ResultResponse(request, InitializeResult(p))
      [] request.method = "initialized" -> NullResponse
      [] request.method = "tools/list"  -> ResultResponse(request, ToolsListResult)
      [] request.method = "tools/call"  -> UnknownTool(request)
      [] OTHER                          -> DefaultBranch(request)

\* the unknown-tool branch taking a sequence number before it answers
McpEffect_CountsUnknownTool(p, request) ==
    /\ dialogCounts' =
          IF request.method = "tools/call"
          THEN [dialogCounts EXCEPT ![p][P_Ab] = @ + 1]
          ELSE dialogCounts
    /\ UNCHANGED << dialogs, pendingDialogs, dialogHistory, microtasks,
                    delivered, okCount, firstResult >>

\* none of these branches of handleMCPRequest assigns a field of the server
McpEffect(p, request) ==
    UNCHANGED registryVars

\* POST /sse or POST /message with a message of RpcRequests: the response
\* (200 with the JSON body, or 202/204 without a body for null)
McpRequest(p, request) ==
    /\ Idle
    /\ Listening(p)
    /\ rpcLast' = [ server |-> p, request |-> request,
                    response |-> HandleMCPRequest(p, request) ]
    /\ initResult' =
          IF request.method = "initialize" /\ initResult[p] = NoRpc
          THEN [initResult EXCEPT ![p] =
                   [ id |-> request.id,
                     result |-> HandleMCPRequest(p, request).result ]]
          ELSE initResult
    /\ McpEffect(p, request)
    /\ lastResponse' = NoResponse
    /\ UNCHANGED frontEndVars
    /\ UNCHANGED processVars
    /\ UNCHANGED pageVars
    /\ UNCHANGED wireVars

\* tools/call of the published tool: callDialogInternal(reason || '',
\* workspace || ''), awaited by the handler
ToolsCall(p, reason, workspace) ==
    /\ Len(dialogs) < MaxRpcDialogs
    /\ CallDialogInternal(p, reason, workspace)

(***************************************************************************)
(* The result text of tools/call.                                          *)
(***************************************************************************)
\* characters of a string
Chars_go   == << "g", "o" >>
Chars_no   == << "n", "o" >>
Chars_x1   == << "x", "=", "1" >>
Chars_data == << "d", "a", "t", "a", ":" >>

A_file  == [ type |-> "file",  name |-> << "f" >>, content |-> Chars_x1 ]
A_code  == [ type |-> "code",  name |-> << "c" >>, content |-> << "y" >> ]
A_image == [ type |-> "image", name |-> << "i" >>, content |-> Chars_data \o << "Q" >> ]
A_png   == [ type |-> "image", name |-> << "j" >>, content |-> << "P" >> ]

RC_plain  == [shouldContinue |-> TRUE,  userInput |-> Chars_go, attachments |-> << >>]
RC_files  == [shouldContinue |-> TRUE,  userInput |-> Chars_go,
              attachments |-> << A_file, A_image, A_code, A_png >>]
RE_plain  == [shouldContinue |-> FALSE, userInput |-> << >>,    attachments |-> << >>]
RE_said   == [shouldContinue |-> FALSE, userInput |-> Chars_no, attachments |-> << A_file >>]

\* the bodies of POST /respond sent while JSON-RPC clients are served
RpcResolutions == { RC_plain, RC_files, RE_plain, RE_said }

\* the literal pieces of the templates
ContinueHeader   == << "[user chose to continue, new instruction:]", "\n" >>
ContinueFooter   == << "\n", "\n", "[carry out the new instruction now]" >>
AttachmentHeader == << "\n", "\n", "[attachments:]", "\n" >>
StopDirective    == << "[user chose to end; stop all operations now]" >>

\* an iteration without the branch of the code attachments
AttachmentText_SkipsCode(att) ==
    CASE att.type = "image" ->
            IF StartsWith(att.content, Chars_data)
            THEN << "- [image] " >> \o att.name \o << "\n", "[image data(base64): ]" >>
                    \o att.content \o << "\n" >>
            ELSE << "- [image] " >> \o att.name \o << "\n" >>
      [] att.type = "file" ->
            << "- [file] " >> \o att.name \o << "\n", "[content:]", "\n" >>
                \o att.content \o << "\n" >>
      [] OTHER -> << >>

\* one iteration of for (const att of response.attachments)
AttachmentText(att) ==
    CASE att.type = "image" ->
            IF StartsWith(att.content, Chars_data)
            THEN << "- [image] " >> \o att.name \o << "\n", "[image data(base64): ]" >>
                    \o att.content \o << "\n" >>
            ELSE << "- [image] " >> \o att.name \o << "\n" >>
      [] att.type = "file" ->
            << "- [file] " >> \o att.name \o << "\n", "[content:]", "\n" >>
                \o att.content \o << "\n" >>
      [] att.type = "code" ->
            << "- [code] " >> \o att.name \o << "\n", "[code fence]", "\n" >>
                \o att.content \o << "\n", "[code fence]", "\n" >>
      [] OTHER -> << >>

RECURSIVE AttachmentsText(_)
AttachmentsText(atts) ==
    IF atts = << >> THEN << >>
    ELSE AttachmentText(Head(atts)) \o AttachmentsText(Tail(atts))

\* the stop branch quoting what the human typed
ResultText_StopQuotesInput(response) ==
    IF response.shouldContinue
    THEN ContinueHeader \o response.userInput \o ContinueFooter
            \o (IF Len(response.attachments) > 0
                THEN AttachmentHeader \o AttachmentsText(response.attachments)
                ELSE << >>)
    ELSE StopDirective \o response.userInput

\* resultText of case 'tools/call'
ResultText(response) ==
    IF response.shouldContinue
    THEN ContinueHeader \o response.userInput \o ContinueFooter
            \o (IF Len(response.attachments) > 0
                THEN AttachmentHeader \o AttachmentsText(response.attachments)
                ELSE << >>)
    ELSE StopDirective

\* the response of the tools/call that submitted id, once its await resumed
ToolsCallResult(id) ==
    [ content |-> << [ type |-> "text", text |-> ResultText(delivered[id]) ] >> ]

NextRpc ==
    \/ \E p \in Procs : Activate(p)
    \/ \E p \in Procs, r \in Reasons : ToolsCall(p, r, P_Ab)
    \/ \E p \in Procs, request \in RpcRequests : McpRequest(p, request)
    \/ \E p \in Procs, id \in Ids, res \in RpcResolutions : PostRespond(p, id, res)
    \/ EndResponse
    \/ RunMicrotask

SpecRpc == InitPort /\ [][NextRpc]_vars

(***************************************************************************)
(* The three RPC servers and their transports: the stdio server            *)
(* (mcp-server.ts), the standalone HTTP/SSE server (mcp-server-sse.ts) and  *)
(* the server embedded in the extension.  wire.log is what each server has  *)
(* written back, in order; wire.inFlight holds the tools/call requests      *)
(* whose await has not resumed.                                             *)
(***************************************************************************)
MaxWireLog == 2

\* a body JSON.parse throws on
Malformed == [ malformed |-> TRUE ]

\* where a message reaches each server
PostPaths ==
    [ h \in Handlers |->
        CASE h = "stdio"      -> { "stdin" }
          [] h = "standalone" -> { "/message", "/mcp" }
          [] h = "embedded"   -> { "/sse", "/message" } ]

\* tools/call of the published tool
KnownCall ==
    [ method |-> "tools/call", id |-> "id-1", name |-> ToolName,
      arguments |-> [ reason |-> "done", workspace |-> P_Ab ] ]

WireRequests ==
    { [ method |-> "initialize", id |-> "id-1" ],
      [ method |-> "tools/list", id |-> "id-1" ],
      [ method |-> "initialized", id |-> Undefined ],
      KnownCall }

WireBodies == WireRequests \cup { Malformed }

\* the catch of the POST handlers: 400 with this body
ParseError ==
    [ jsonrpc |-> "2.0",
      error |-> [ code |-> 0 - 32700, message |-> "Parse error" ] ]

ToolError == 0 - 32000

\* serverInfo.version of the standalone servers
StdioVersion == "1.2.0"

StandaloneVersion == "1.4.0"

\* case 'initialize' of the standalone servers
StandaloneInitializeResult(h) ==
    [ protocolVersion |-> "2024-11-05",
      capabilities    |-> [ tools |-> << >> ],
      serverInfo      |-> [ name |-> ToolName,
                            version |-> IF h = "stdio" THEN StdioVersion
                                        ELSE StandaloneVersion ] ]

\* case 'tools/list' of the stdio server: the description has one language
StdioToolsListResult ==
    [ tools |-> << [ name |-> ToolName,
                     description |-> << "[when to call, zh]" >>,
                     inputSchema |-> [ type |-> "object",
                                       properties |-> { "reason", "workspace" },
                                       required |-> << "reason", "workspace" >> ] ] >> ]

\* handleRequest (stdio) and handleMCPRequest (standalone) for the messages
\* that do not await; NullResponse when nothing is written
StandaloneRequest(h, request) ==
    CASE request.method = "initialize" ->
            ResultResponse(request, StandaloneInitializeResult(h))
      [] request.method = "initialized" -> NullResponse
      [] request.method = "tools/list" ->
            ResultResponse(request, IF h = "stdio" THEN StdioToolsListResult
                                    ELSE ToolsListResult)
      [] request.method = "tools/call" -> UnknownTool(request)
      [] OTHER -> DefaultBranch(request)

\* one iteration of the attachment loop of the standalone servers: an image
\* is named, its content is never quoted
StandaloneAttachmentText(att) ==
    CASE att.type = "image" -> << "- [image] " >> \o att.name \o << "\n" >>
      [] OTHER -> AttachmentText(att)

RECURSIVE StandaloneAttachmentsText(_)
StandaloneAttachmentsText(atts) ==
    IF atts = << >> THEN << >>
    ELSE StandaloneAttachmentText(Head(atts)) \o StandaloneAttachmentsText(Tail(atts))

\* resultText of case 'tools/call' in the standalone servers
StandaloneResultText(response) ==
    IF response.shouldContinue
    THEN ContinueHeader \o response.userInput \o ContinueFooter
            \o (IF Len(response.attachments) > 0
                THEN AttachmentHeader \o StandaloneAttachmentsText(response.attachments)
                ELSE << >>)
    ELSE StopDirective

\* what callDialog of a standalone server rejects with: the request's
\* 'error' event, or the reply that JSON.parse throws on
Refused  == [ rejected |-> << "Error: connect ECONNREFUSED" >> ]
Garbled  == [ rejected |-> << "Error: Failed to parse response" >> ]

Rejections == { Refused, Garbled }

IsRejection(outcome) == "rejected" \in DOMAIN outcome

\* the resolutions the endpoint replies with while the servers are compared
WireResolutions == { RC_files, RE_plain }

\* the catch of tools/call answering nothing
RejectedResponse_Uncaught(h, request, outcome) ==
    IF h = "stdio" THEN NullResponse ELSE ParseError

\* catch (error) of tools/call
RejectedResponse(h, request, outcome) ==
    ErrorResponse(request, ToolError,
        << "Failed to show dialog: " >> \o outcome.rejected
           \o (IF h = "embedded" THEN << >>
               ELSE << ". Make sure the AI Chat HITL VSCode extension is running." >>))

\* the response of tools/call once the await has settled with outcome
CallResponse(h, request, outcome) ==
    IF IsRejection(outcome)
    THEN RejectedResponse(h, request, outcome)
    ELSE ResultResponse(request,
            [ content |-> << [ type |-> "text",
                               text |-> IF h = "embedded" THEN ResultText(outcome)
                                        ELSE StandaloneResultText(outcome) ] >> ])

(***************************************************************************)
(* Fan-out to the GET /sse subscribers.                                    *)
(***************************************************************************)
\* the POST paths whose handler calls broadcastSSE after it has answered
Mirrors(h, path) ==
    \/ h = "standalone"
    \/ h = "embedded" /\ path = "/message"

\* the event broadcastSSE writes for a response
MirroredEvent(f, response) ==
    IF f = "embedded"
    THEN [ event |-> "message", data |-> response ]
    ELSE [ event |-> "",
           data |-> [ type |-> "response", data |-> response ] ]

\* the first event of GET /sse
Handshake(f) ==
    IF f = "embedded"
    THEN [ event |-> "endpoint", data |-> "/messages" ]
    ELSE [ event |-> "", data |-> [ type |-> "connected" ] ]

\* the position of the first subscriber whose write throws, 0 when none
RECURSIVE FirstBroken(_, _)
FirstBroken(clients, i) ==
    IF i > Len(clients) THEN 0
    ELSE IF clients[i] \in sse.broken THEN i
    ELSE FirstBroken(clients, i + 1)

\* the subscribers a broadcast writes to with success.  The embedded server
\* catches the exception of each write; in the standalone server the
\* exception leaves forEach
Reached(f) ==
    LET clients == sse.clients[f]
        stop    == FirstBroken(clients, 1)
    IN  IF f = "embedded"
        THEN { clients[i] : i \in { j \in 1..Len(clients) : clients[j] \notin sse.broken } }
        ELSE { clients[i] : i \in { j \in 1..Len(clients) : stop = 0 \/ j < stop } }

\* sseClients after a broadcast: only the embedded server deletes
ClientsAfter(f) ==
    IF f = "embedded"
    THEN SelectSeq(sse.clients[f], LAMBDA c : c \notin sse.broken)
    ELSE sse.clients[f]

\* broadcastSSE(response)
BroadcastSSE(f, response) ==
    sse' = [ sse EXCEPT
               !.clients[f] = ClientsAfter(f),
               !.received = [ c \in Subscribers |->
                                IF c \in Reached(f)
                                THEN Append(@[c], MirroredEvent(f, response))
                                ELSE @[c] ] ]

\* the end of a POST handler or of handleRequest: the response is written
\* to the sender (nothing for null on stdio, 202/204 over HTTP), then
\* mirrored where the handler does so
Respond(h, path, body, outcome, response) ==
    /\ wire' = [ wire EXCEPT
                   !.log = Append(@, [ handler |-> h, path |-> path, body |-> body,
                                       outcome |-> outcome, response |-> response ]),
                   !.inFlight = { c \in @ : ~( c.handler = h /\ c.path = path
                                               /\ c.request = body ) } ]
    /\ IF Mirrors(h, path) /\ response # NullResponse /\ response # ParseError
       THEN BroadcastSSE(h, response)
       ELSE UNCHANGED sse

\* the calls that can be in flight; dialog is the registry's id of the
\* request of an embedded call, 0 for a call of a standalone server
WireCalls ==
    UNION { [ handler : { h }, path : PostPaths[h], request : { KnownCall },
              dialog : IF h = "embedded" THEN Ids ELSE { 0 } ] :
            h \in Handlers }

InFlight(h, path) == { c \in wire.inFlight : c.handler = h /\ c.path = path }

WireLoad == Len(wire.log) + Cardinality(wire.inFlight)

\* the registry, the front ends and the processes are left alone
WireOnly ==
    /\ UNCHANGED registryVars
    /\ UNCHANGED frontEndVars
    /\ UNCHANGED processVars
    /\ UNCHANGED lastResponse

\* a message arrives: a frame on stdin, or the body of a POST.  The
\* tools/call of the published tool awaits: callDialog (POST /dialog to
\* the endpoint) in the standalone servers, callDialogInternal in the
\* embedded one
WireReceive(h, path, body, max) ==
    /\ h = "embedded" => Idle
    /\ WireLoad < max
    /\ path \in PostPaths[h]
    /\ h = "embedded" => \E p \in Procs : Listening(p)
    /\ IF body = Malformed
       THEN /\ Respond(h, path, body, NoResult,
                       IF h = "stdio" THEN NullResponse ELSE ParseError)
            /\ WireOnly
       ELSE IF body = KnownCall
       THEN /\ InFlight(h, path) = {}
            /\ IF h = "embedded"
               THEN \E p \in Procs :
                      /\ SubmitStep(p, body.arguments.reason,
                                    body.arguments.workspace, "mcp")
                      /\ wire' = [ wire EXCEPT !.inFlight = @ \cup
                                     { [ handler |-> h, path |-> path, request |-> body,
                                         dialog |-> Len(dialogs) + 1 ] } ]
               ELSE /\ wire' = [ wire EXCEPT !.inFlight = @ \cup
                                   { [ handler |-> h, path |-> path, request |-> body,
                                       dialog |-> 0 ] } ]
                    /\ WireOnly
            /\ UNCHANGED sse
       ELSE /\ \E p \in Procs :
                 /\ h = "embedded" => Listening(p)
                 /\ Respond(h, path, body, NoResult,
                            IF h = "embedded" THEN HandleMCPRequest(p, body)
                            ELSE StandaloneRequest(h, body))
            /\ WireOnly
    /\ UNCHANGED << rpcLast, initResult, stdin >>
    /\ UNCHANGED pageVars

\* the await of tools/call settles and the handler goes on: the promise of
\* callDialogInternal resolves with what respondToDialog was given; callDialog
\* resolves with the parsed reply of the endpoint or rejects
WireSettle(call, outcome) ==
    /\ call.handler = "embedded" => Idle
    /\ call \in wire.inFlight
    /\ call.handler = "embedded" => outcome = delivered[call.dialog]
    /\ outcome # NoResult
    /\ Respond(call.handler, call.path, call.request, outcome,
               CallResponse(call.handler, call.request, outcome))
    /\ WireOnly
    /\ UNCHANGED << rpcLast, initResult, stdin >>
    /\ UNCHANGED pageVars

NextWire ==
    \/ \E p \in Procs : Activate(p)
    \/ \E h \in Handlers, path \in { "stdin", "/message", "/mcp", "/sse" },
          body \in WireBodies : WireReceive(h, path, body, MaxWireLog)
    \/ \E call \in WireCalls, outcome \in WireResolutions \cup Rejections :
          WireSettle(call, outcome)
    \/ \E p \in Procs, id \in Ids, res \in WireResolutions : PostRespond(p, id, res)
    \/ EndResponse
    \/ RunMicrotask

SpecWire == InitPort /\ [][NextWire]_vars

(***************************************************************************)
(* The GET /sse subscribers of the two HTTP servers.                       *)
(***************************************************************************)
MaxSsePosts == 2

Subscribed(f) == { sse.clients[f][i] : i \in 1..Len(sse.clients[f]) }

\* GET /sse: the first event is written, then the client joins sseClients
SseConnect(f, c) ==
    /\ f = "embedded" => Idle /\ \E p \in Procs : Listening(p)
    /\ \A g \in FanOuts : c \notin Subscribed(g)
    /\ sse.received[c] = << >>
    /\ sse' = [ sse EXCEPT !.clients[f] = Append(@, c),
                           !.received[c] = << Handshake(f) >> ]
    /\ UNCHANGED wire
    /\ WireOnly
    /\ UNCHANGED << rpcLast, initResult, stdin >>
    /\ UNCHANGED pageVars

\* the connection of a subscriber is gone and its 'close' event has not yet
\* been handled: res.write for it throws
SseBreak(c) ==
    /\ \E f \in FanOuts : c \in Subscribed(f)
    /\ c \notin sse.broken
    /\ sse' = [ sse EXCEPT !.broken = @ \cup { c } ]
    /\ UNCHANGED wire
    /\ WireOnly
    /\ UNCHANGED << rpcLast, initResult, stdin >>
    /\ UNCHANGED pageVars

\* req.on('close'): sseClients.delete(clientId)
SseClose(f, c) ==
    /\ c \in Subscribed(f)
    /\ sse' = [ sse EXCEPT !.clients[f] = SelectSeq(@, LAMBDA d : d # c),
                           !.broken = @ \ { c } ]
    /\ UNCHANGED wire
    /\ WireOnly
    /\ UNCHANGED << rpcLast, initResult, stdin >>
    /\ UNCHANGED pageVars

\* the bodies posted while subscribers listen
SseBodies ==
    { [ method |-> "tools/list", id |-> "id-1" ],
      [ method |-> "initialized", id |-> Undefined ],
      Malformed }

NextSse ==
    \/ \E p \in Procs : Activate(p)
    \/ \E f \in FanOuts, c \in Subscribers : SseConnect(f, c)
    \/ \E c \in Subscribers : SseBreak(c)
    \/ \E f \in FanOuts, c \in Subscribers : SseClose(f, c)
    \/ \E f \in FanOuts, path \in { "/message", "/mcp", "/sse" },
          body \in SseBodies : WireReceive(f, path, body, MaxSsePosts)

SpecSse == InitPort /\ [][NextSse]_vars

(***************************************************************************)
(* Submissions whose workspace strings differ only in case and slashes.    *)
(***************************************************************************)
SameKeyWorkspaces == { P_Ab, P_ab }

NextKeys ==
    \/ \E p \in Procs : Activate(p)
    \/ \E p \in Procs, r \in Reasons, w \in SameKeyWorkspaces : PostDialog(p, r, w)
    \/ \E p \in Procs, r \in Reasons, w \in SameKeyWorkspaces : CallDialogInternal(p, r, w)
    \/ \E p \in Procs, id \in Ids, res \in Resolutions : PostRespond(p, id, res)
    \/ EndResponse
    \/ RunMicrotask

SpecKeys == InitPort /\ [][NextKeys]_vars

(***************************************************************************)
(* A Follower whose Leader stops listening and listens again.              *)
(***************************************************************************)
MaxRelayDialogs == 2

RelaySubmit(p, reason) ==
    /\ Len(dialogs) < MaxRelayDialogs
    /\ CallDialogInternal(p, reason, P_Ab)

\* the human answers in the panel of process p
RelayAnswer(p, id, result) ==
    /\ PanelRespondStep(p, id, result)
    /\ answered' = [answered EXCEPT ![p] = @ \cup { id }]
    /\ UNCHANGED << pages, presented, globalState >>
    /\ UNCHANGED rpcVars

NextRelay ==
    \/ \E p \in Procs : Activate(p)
    \/ \E p \in Procs, r \in Reasons : RelaySubmit(p, r)
    \/ \E p \in Procs : PollTick(p)
    \/ \E p \in Procs, id \in Ids : RelayAnswer(p, id, R_continue)
    \/ EndResponse
    \/ RunMicrotask
    \/ \E p \in Procs : StopServer(p)
    \/ \E p \in Procs : RestartServer(p)

\* the interval timer of startClientPolling fires every second and the
\* continuations of the event loop run
FairnessRelay ==
    /\ WF_vars(EndResponse)
    /\ WF_vars(RunMicrotask)
    /\ \A p \in Procs : WF_vars(PollTick(p))

SpecRelay == InitPort /\ [][NextRelay]_vars /\ FairnessRelay

(***************************************************************************)
(* GET /pending asked by any client of the endpoint.                       *)
(***************************************************************************)
\* values of the query parameter; the empty one stands for no parameter
PollQueries == { << >>, P_a, P_x }

\* a GET /pending that also takes the listed requests out of the registry
GetPending_Drains(q, workspace) ==
    /\ Idle
    /\ Listening(q)
    /\ rpcLast' = [ get |-> "/pending", workspace |-> workspace,
                    dialogs |-> PendingFor(q, workspace) ]
    /\ pendingDialogs' = [pendingDialogs EXCEPT ![q] = @ \ PendingFor(q, workspace)]
    /\ lastResponse' = NoResponse
    /\ UNCHANGED << dialogs, dialogCounts, dialogHistory, microtasks, delivered,
                    okCount, firstResult >>
    /\ UNCHANGED frontEndVars
    /\ UNCHANGED processVars
    /\ UNCHANGED pageVars
    /\ UNCHANGED << initResult, wire, sse, stdin >>

\* GET /pending[?workspace=W]: res.end(JSON.stringify({ dialogs: filtered }))
GetPending(q, workspace) ==
    /\ Idle
    /\ Listening(q)
    /\ rpcLast' = [ get |-> "/pending", workspace |-> workspace,
                    dialogs |-> PendingFor(q, workspace) ]
    /\ lastResponse' = NoResponse
    /\ UNCHANGED registryVars
    /\ UNCHANGED frontEndVars
    /\ UNCHANGED processVars
    /\ UNCHANGED pageVars
    /\ UNCHANGED << initResult, wire, sse, stdin >>

\* a Leader, its Followers and other clients of the endpoint
NextPoll ==
    \/ \E p \in Procs : Activate(p)
    \/ \E p \in Procs, r \in Reasons : RelaySubmit(p, r)
    \/ \E q \in Procs, w \in PollQueries : GetPending(q, w)
    \/ \E p \in Procs : PollTick(p)
    \/ \E p \in Procs, id \in Ids : RelayAnswer(p, id, R_continue)
    \/ \E p \in Procs, id \in Ids : PostRespond(p, id, R_end)
    \/ EndResponse
    \/ RunMicrotask

SpecPoll == InitPort /\ [][NextPoll]_vars

(***************************************************************************)
(* Saved states: context.globalState survives the extension process.       *)
(***************************************************************************)
MaxSnapDialogs == 1

\* savePendingDialogStates as the last statement that touches the states
SavePendingDialogStates(p) == globalState' = pendingDialogStates'[p]

\* DialogPanel.restorePendingStates: pendingDialogStates.set(state.id, state)
RestorePendingStates(p, savedStates) ==
    [pendingDialogStates EXCEPT ![p] =
        { st \in @ : \A sv \in savedStates : sv.id # st.id } \cup savedStates]

\* an activate that registers the restored requests as pending
Startup_Reregisters(p) ==
    /\ ActivateStep(p)
    /\ pendingDialogStates' = RestorePendingStates(p, globalState)
    /\ pendingDialogs' = [pendingDialogs EXCEPT ![p] = @ \cup { sv.id : sv \in globalState }]
    /\ UNCHANGED << dialogs, dialogCounts, dialogHistory, microtasks, delivered,
                    okCount, firstResult >>
    /\ UNCHANGED << currentPanels, openBrowserWindows, processedDialogIds, claimed >>
    /\ UNCHANGED pageVars
    /\ UNCHANGED rpcVars

\* activate of a process started after another one has saved states
Startup(p) ==
    /\ ActivateStep(p)
    /\ pendingDialogStates' = RestorePendingStates(p, globalState)
    /\ UNCHANGED registryVars
    /\ UNCHANGED << currentPanels, openBrowserWindows, processedDialogIds, claimed >>
    /\ UNCHANGED pageVars
    /\ UNCHANGED rpcVars

\* the window is closed or reloaded: the disposable of activate saves the
\* states and stops the server, and the objects of the process are gone
Exit(p) ==
    /\ Idle
    /\ started[p]
    /\ globalState' = pendingDialogStates[p]
    /\ started' = [started EXCEPT ![p] = FALSE]
    /\ server' = [server EXCEPT ![p] = "null"]
    /\ polling' = [polling EXCEPT ![p] = FALSE]
    /\ pendingDialogs' = [pendingDialogs EXCEPT ![p] = {}]
    /\ dialogCounts' = [dialogCounts EXCEPT ![p] = [w \in Workspaces |-> 0]]
    /\ dialogHistory' = [dialogHistory EXCEPT ![p] = [w \in Workspaces |-> << >>]]
    /\ currentPanels' = [currentPanels EXCEPT ![p] = {}]
    /\ pendingDialogStates' = [pendingDialogStates EXCEPT ![p] = {}]
    /\ openBrowserWindows' = [openBrowserWindows EXCEPT ![p] = {}]
    /\ processedDialogIds' = [processedDialogIds EXCEPT ![p] = {}]
    /\ claimed' = [claimed EXCEPT ![p] = {}]
    /\ lastResponse' = NoResponse
    /\ UNCHANGED << folders, openInBrowser, configPort, port, pollPort >>
    /\ UNCHANGED << dialogs, microtasks, delivered, okCount, firstResult >>
    /\ UNCHANGED << pages, presented, answered >>
    /\ UNCHANGED rpcVars

\* a tools/call: handleDialogRequest saves the states after savePendingState
SnapSubmit(p, reason) ==
    /\ Len(dialogs) < MaxSnapDialogs
    /\ SubmitStep(p, reason, P_Ab, "mcp")
    /\ SavePendingDialogStates(p)
    /\ UNCHANGED << pages, presented, answered >>
    /\ UNCHANGED rpcVars

\* a tick of the poller: handleDialogRequest for every new entry
SnapPollTick(p) ==
    /\ PollStep(p)
    /\ SavePendingDialogStates(p)
    /\ UNCHANGED << pages, presented, answered >>
    /\ UNCHANGED rpcVars

\* the human answers in the panel: onResponse resolves and saves the
\* states, then dispose deletes the state of the panel
SnapAnswer(p, id, result) ==
    /\ PanelRespondStep(p, id, result)
    /\ globalState' = pendingDialogStates[p]
    /\ UNCHANGED << pages, presented, answered >>
    /\ UNCHANGED rpcVars

\* setInterval(() => savePendingDialogStates(context), 30000)
SaveInterval(p) ==
    /\ Idle
    /\ started[p]
    /\ globalState # pendingDialogStates[p]
    /\ globalState' = pendingDialogStates[p]
    /\ lastResponse' = NoResponse
    /\ UNCHANGED registryVars
    /\ UNCHANGED frontEndVars
    /\ UNCHANGED processVars
    /\ UNCHANGED << pages, presented, answered >>
    /\ UNCHANGED rpcVars

NextSnap ==
    \/ \E p \in Procs : Startup(p)
    \/ \E p \in Procs : Exit(p)
    \/ \E p \in Procs, r \in Reasons : SnapSubmit(p, r)
    \/ \E p \in Procs : SnapPollTick(p)
    \/ \E p \in Procs, id \in Ids, res \in Resolutions : SnapAnswer(p, id, res)
    \/ \E p \in Procs, id \in Ids : PanelClose(p, id)
    \/ \E p \in Procs : SaveInterval(p)
    \/ \E p \in Procs, id \in Ids, res \in Resolutions : PostRespond(p, id, res)
    \/ EndResponse
    \/ RunMicrotask

SpecSnap == Init /\ [][NextSnap]_vars

(***************************************************************************)
(* tools/call answered with the attachments the human added, in any order. *)
(***************************************************************************)
MaxAttachments == 2

\* number of tools/call in flight or answered
MaxAttLog == 1

AttKinds == { A_file, A_code, A_image }

\* the attachment lists of at most MaxAttachments entries
AttLists == UNION { [ 1 .. n -> AttKinds ] : n \in 0 .. MaxAttachments }

\* the continuing resolutions that carry them
AttResolutions ==
    { [ shouldContinue |-> TRUE, userInput |-> Chars_go, attachments |-> atts ] :
        atts \in AttLists }

NextAtt ==
    \/ \E p \in Procs : Activate(p)
    \/ \E h \in Handlers, path \in { "stdin", "/message" } :
          WireReceive(h, path, KnownCall, MaxAttLog)
    \/ \E call \in WireCalls, outcome \in AttResolutions : WireSettle(call, outcome)
    \/ \E p \in Procs, id \in Ids, res \in AttResolutions : PostRespond(p, id, res)
    \/ EndResponse
    \/ RunMicrotask

SpecAtt == InitPort /\ [][NextAtt]_vars

(***************************************************************************)
(* The stdin reader of the stdio server (mcp-server.ts).  The stream is a  *)
(* sequence of characters as the utf8 decoder of process.stdin yields them *)
(* (a string index is a UTF-16 unit); Content-Length counts bytes.         *)
(***************************************************************************)
\* number of frames a client writes
MaxFrames == 2

\* JSON texts of requests: one in ASCII, one with a two-byte character
M_ascii == << "{", "a", "}" >>
M_multi == << "{", "é", "}" >>

StdinMessages == { M_ascii, M_multi }

\* the UTF-8 length of one character of the model
Utf8Bytes(c) == IF c = "é" THEN 2 ELSE 1

\* Buffer.byteLength(json)
RECURSIVE ByteLength(_)
ByteLength(json) ==
    IF json = << >> THEN 0 ELSE Utf8Bytes(Head(json)) + ByteLength(Tail(json))

DigitChars == << "0", "1", "2", "3", "4", "5", "6", "7", "8", "9" >>

IsDigit(c) == \E d \in DOMAIN DigitChars : DigitChars[d] = c

DigitValue(c) == (CHOOSE d \in DOMAIN DigitChars : DigitChars[d] = c) - 1

\* the decimal text of a number
RECURSIVE ToDecimal(_)
ToDecimal(n) ==
    IF n < 10 THEN << DigitChars[n + 1] >>
    ELSE ToDecimal(n \div 10) \o << DigitChars[(n % 10) + 1] >>

HeaderName == << "C", "o", "n", "t", "e", "n", "t", "-",
                 "L", "e", "n", "g", "t", "h", ":" >>

HeaderEndChars == << "\r", "\n", "\r", "\n" >>

\* the frame of sendResponse: the length is the byte length of the body
Frame(json) ==
    HeaderName \o << " " >> \o ToDecimal(ByteLength(json)) \o HeaderEndChars \o json

\* String.prototype.substring(a, b) and substring(a), indices from 0
Substring(s, a, b) == SubSeq(s, a + 1, b)

SubstringFrom(s, a) == SubSeq(s, a + 1, Len(s))

\* String.prototype.indexOf: the first index from 0, or -1
IndexOf(s, t) ==
    LET found == { i \in 0 .. Len(s) - Len(t) : Substring(s, i, i + Len(t)) = t }
    IN  IF found = {} THEN 0 - 1 ELSE Min(found)

\* the i flag of the regular expression, for the letters of the header name
HeaderLower(c) ==
    CASE c = "C" -> "c"
      [] c = "L" -> "l"
      [] OTHER   -> c

\* \s of the regular expression
IsSpace(c) == c \in { " ", "\t", "\r", "\n" }

\* the index of the first character from i on that is not a space
RECURSIVE SkipSpaces(_, _)
SkipSpaces(s, i) ==
    IF i < Len(s) /\ IsSpace(s[i + 1]) THEN SkipSpaces(s, i + 1) ELSE i

\* parseInt of the digits \d+ that start at index i, after acc
RECURSIVE ParseInt(_, _, _)
ParseInt(s, i, acc) ==
    IF i < Len(s) /\ IsDigit(s[i + 1])
    THEN ParseInt(s, i + 1, 10 * acc + DigitValue(s[i + 1]))
    ELSE acc

\* /Content-Length:\s*(\d+)/i matches at index i of the header
MatchesAt(header, i) ==
    /\ i + Len(HeaderName) <= Len(header)
    /\ [ k \in 1 .. Len(HeaderName) |-> HeaderLower(header[i + k]) ]
          = [ k \in 1 .. Len(HeaderName) |-> HeaderLower(HeaderName[k]) ]
    /\ LET d == SkipSpaces(header, i + Len(HeaderName))
       IN  d < Len(header) /\ IsDigit(header[d + 1])

\* parseInt(header.match(/Content-Length:\s*(\d+)/i)[1]), or -1 without match
ContentLengthMatch(header) ==
    LET found == { i \in 0 .. Len(header) : MatchesAt(header, i) }
    IN  IF found = {} THEN 0 - 1
        ELSE ParseInt(header, SkipSpaces(header, Min(found) + Len(HeaderName)), 0)

\* JSON.parse succeeds on the texts of requests only
JsonParses(message) == message \in StdinMessages

\* if (buffer.length < messageEnd) break
Complete(buffer, messageEnd) == ~(Len(buffer) < messageEnd)

\* the while (true) loop of the 'data' handler
RECURSIVE ReadLoop(_)
ReadLoop(st) ==
    LET buffer == st.buffer
        headerEnd == IndexOf(buffer, HeaderEndChars)
        header == Substring(buffer, 0, headerEnd)
        contentLength == ContentLengthMatch(header)
        messageStart == headerEnd + 4
        messageEnd == messageStart + contentLength
        message == Substring(buffer, messageStart, messageEnd)
    IN  IF headerEnd = 0 - 1 THEN st
        ELSE IF contentLength = 0 - 1
        THEN ReadLoop([st EXCEPT !.buffer = SubstringFrom(buffer, headerEnd + 4)])
        ELSE IF ~Complete(buffer, messageEnd) THEN st
        ELSE IF JsonParses(message)
        THEN ReadLoop([st EXCEPT !.buffer = SubstringFrom(buffer, messageEnd),
                                 !.dispatched = Append(@, message)])
        ELSE ReadLoop([st EXCEPT !.buffer = SubstringFrom(buffer, messageEnd),
                                 !.failed = @ + 1])

StdioOnly ==
    /\ UNCHANGED registryVars
    /\ UNCHANGED frontEndVars
    /\ UNCHANGED processVars
    /\ UNCHANGED pageVars
    /\ UNCHANGED << lastResponse, rpcLast, initResult, wire, sse >>

\* a client writes one framed request into the pipe
StdinWrite(json) ==
    /\ Len(stdin.sent) < MaxFrames
    /\ stdin' = [ stdin EXCEPT !.sent = Append(@, json),
                               !.rest = @ \o Frame(json) ]
    /\ StdioOnly

\* process.stdin.on('data'): a chunk of n characters arrives
StdinChunk(n) ==
    /\ n <= Len(stdin.rest)
    /\ \E st \in { ReadLoop([ stdin EXCEPT
                                !.buffer = @ \o SubSeq(stdin.rest, 1, n),
                                !.rest = SubstringFrom(@, n) ]) } :
          stdin' = st
    /\ StdioOnly

\* the pipe delivers what was written in chunks of any size
StdinData == \E n \in 1 .. Len(stdin.rest) : StdinChunk(n)

NextStdio ==
    \/ \E json \in StdinMessages : StdinWrite(json)
    \/ StdinData

SpecStdio == Init /\ [][NextStdio]_vars

(***************************************************************************)
(* Windows opened on other folders, and queries for other workspaces.      *)
(***************************************************************************)
MaxMatchDialogs == 1

\* folders a window is opened on, and values of ?workspace=
MatchPaths == { P_root, P_a, P_ab, P_abc, P_ab_c }

\* the window of process p is opened on a folder before the extension
\* activates in it
OpenWindow(p, path) ==
    /\ ~started[p]
    /\ folders[p] # << path >>
    /\ folders' = [folders EXCEPT ![p] = << path >>]
    /\ UNCHANGED << started, openInBrowser, server, polling, configPort, port, pollPort >>
    /\ UNCHANGED lastResponse
    /\ UNCHANGED registryVars
    /\ UNCHANGED frontEndVars
    /\ UNCHANGED pageVars
    /\ UNCHANGED rpcVars

MatchSubmit(p, reason, workspace) ==
    /\ Len(dialogs) < MaxMatchDialogs
    /\ PostDialog(p, reason, workspace)

\* String.prototype.includes
Includes(s, t) ==
    \E i \in 0 .. Len(s) - Len(t) : SubSeq(s, i + 1, i + Len(t)) = t

\* the filter of getManageHtml (dialog against the page's workspace)
ManageFilter(dialogWorkspace, workspace) ==
    \/ Len(workspace) = 0
    \/ Includes(NormalizePath(dialogWorkspace), NormalizePath(workspace))

\* pendingList of getManageHtml
ManagePending(q, workspace) ==
    { id \in pendingDialogs[q] : ManageFilter(dialogs[id].workspace, workspace) }

\* GET /manage?workspace=W: the page with its list of pending requests
GetManage(q, workspace) ==
    /\ Idle
    /\ Listening(q)
    /\ rpcLast' = [ get |-> "/manage", workspace |-> workspace,
                    dialogs |-> ManagePending(q, workspace) ]
    /\ lastResponse' = NoResponse
    /\ UNCHANGED registryVars
    /\ UNCHANGED frontEndVars
    /\ UNCHANGED processVars
    /\ UNCHANGED pageVars
    /\ UNCHANGED << initResult, wire, sse, stdin >>

NextMatch ==
    \/ \E p \in Procs, path \in MatchPaths : OpenWindow(p, path)
    \/ \E p \in Procs : Activate(p)
    \/ \E p \in Procs, r \in Reasons, w \in ReqWorkspaces : MatchSubmit(p, r, w)
    \/ \E q \in Procs, w \in MatchPaths : GetPending(q, w)
    \/ \E q \in Procs, w \in MatchPaths : GetManage(q, w)
    \/ \E p \in Procs : PollTick(p)

SpecMatch == InitPort /\ [][NextMatch]_vars


(***************************************************************************)
(* Definitions used by the properties.                                     *)
(***************************************************************************)
Owner(id) == dialogs[id].owner

IsPending(id) == id \in pendingDialogs[Owner(id)]

\* the history items of dialog id held by any process for any workspace
EntriesFor(id) ==
    UNION { UNION { { << p, w, i >> :
                        i \in { j \in DOMAIN dialogHistory[p][w] :
                                  dialogHistory[p][w][j].id = id } } :
                    w \in ReqWorkspaces } :
            p \in Procs }

EntryAt(e) == dialogHistory[e[1]][e[2]][e[3]]

\* the segments of a normalized path between separators, empty ones dropped
RECURSIVE Segments(_, _)
Segments(s, cur) ==
    IF s = << >>
    THEN IF cur = << >> THEN << >> ELSE << cur >>
    ELSE IF Head(s) = "/"
         THEN (IF cur = << >> THEN << >> ELSE << cur >>) \o Segments(Tail(s), << >>)
         ELSE Segments(Tail(s), Append(cur, Head(s)))

Directory(path) == Segments(NormalizePath(path), << >>)

IsPrefix(a, b) == Len(a) <= Len(b) /\ SubSeq(b, 1, Len(a)) = a

\* one directory equals, is an ancestor of, or is a descendant of the other
SameOrContaining(a, b) ==
    \/ IsPrefix(Directory(a), Directory(b))
    \/ IsPrefix(Directory(b), Directory(a))

(***************************************************************************)
(* C1: for every dialog id, at most one resolve attempt succeeds, the      *)
(* request is resolved exactly when one has, an attempt that returns       *)
(* success removes exactly one pending request, every other attempt        *)
(* returns notFound and resolves nothing, and the submitter receives its   *)
(* result with exactly one history item written for the id (never two).    *)
(***************************************************************************)
C1_State ==
    \A id \in DOMAIN dialogs :
        LET entries == EntriesFor(id)
        IN  /\ okCount[id] <= 1
            /\ (okCount[id] = 1) <=> ~IsPending(id)
            /\ Cardinality(entries) <= 1
            /\ entries # {} => okCount[id] = 1

C1_Step ==
    /\ lastResponse' = "success" =>
         \E id \in DOMAIN dialogs :
            /\ IsPending(id)
            /\ pendingDialogs' = [pendingDialogs EXCEPT ![Owner(id)] = @ \ {id}]
            /\ okCount' = [okCount EXCEPT ![id] = 1]
    /\ lastResponse' = "notFound" => UNCHANGED << pendingDialogs, okCount >>
    /\ \A id \in DOMAIN dialogs :
         (delivered[id] = NoResult /\ delivered'[id] # NoResult)
            => Cardinality(EntriesFor(id))' = 1

C1_AtMostOneResolution == [](C1_State) /\ [][C1_Step]_vars

\* a second attempt on the only dialog, already resolved, returned notFound
C1_Witness ==
    /\ Len(dialogs) = 1
    /\ okCount[1] = 1
    /\ delivered[1] = R_continue
    /\ lastResponse = "notFound"
    /\ \A p \in Procs : p # Owner(1) => claimed[p] = {}

(***************************************************************************)
(* C2: what the suspended submitter receives is the payload of the first   *)
(* successful resolve of its id, the history item of the id records that   *)
(* payload, and no later step changes what was received.                   *)
(***************************************************************************)
C2_State ==
    \A id \in DOMAIN dialogs :
        /\ delivered[id] # NoResult => delivered[id] = firstResult[id]
        /\ \A e \in EntriesFor(id) :
              /\ firstResult[id] # NoResult
              /\ EntryAt(e).userInput = firstResult[id].userInput
              /\ EntryAt(e).continued = firstResult[id].shouldContinue

C2_Step ==
    \A id \in Ids :
        /\ delivered[id] # NoResult => delivered'[id] = delivered[id]
        /\ firstResult[id] # NoResult => firstResult'[id] = firstResult[id]

C2_FirstResolutionWins == [](C2_State) /\ [][C2_Step]_vars

\* the submitter holds the 'end' resolution and a later attempt was refused
C2_Witness ==
    /\ Len(dialogs) = 1
    /\ delivered[1] = R_end
    /\ EntriesFor(1) # {}
    /\ lastResponse = "notFound"
    /\ \A p \in Procs : p # Owner(1) => claimed[p] = {}

(***************************************************************************)
(* C3: the k-th submission for a workspace string reaching a registry is   *)
(* given sequence number k, whatever is submitted for other workspaces     *)
(* and whatever is resolved in between.                                    *)
(***************************************************************************)
SubmissionsBefore(id) ==
    { j \in 1 .. id : /\ dialogs[j].workspace = dialogs[id].workspace
                      /\ dialogs[j].owner = dialogs[id].owner }

C3_SequenceNumbers ==
    \A id \in DOMAIN dialogs :
        dialogs[id].count = Cardinality(SubmissionsBefore(id))

\* first of its workspace after another workspace's submission, by the
\* other submission path, the earlier request already resolved
C3_Witness ==
    /\ Len(dialogs) = 2
    /\ dialogs[1].workspace # dialogs[2].workspace
    /\ dialogs[1].via # dialogs[2].via
    /\ dialogs[2].count = 1
    /\ delivered[1] # NoResult

(***************************************************************************)
(* C4: history is append-only: a step that changes the history of a        *)
(* workspace extends it by exactly one item and keeps the earlier items.   *)
(***************************************************************************)
AppendsOne(old, new) ==
    /\ Len(new) = Len(old) + 1
    /\ SubSeq(new, 1, Len(old)) = old

C4_HistoryAppendOnly ==
    [][\A p \in Procs, w \in ReqWorkspaces :
          dialogHistory'[p][w] # dialogHistory[p][w]
             => AppendsOne(dialogHistory[p][w], dialogHistory'[p][w])]_vars

(***************************************************************************)
(* C5: whenever the submitter of a request holds its result, the request   *)
(* is not pending and the history of its workspace has the request's item. *)
(***************************************************************************)
C5_HistoryBeforeDelivery ==
    \A id \in DOMAIN dialogs :
        delivered[id] # NoResult =>
            /\ ~IsPending(id)
            /\ \E i \in DOMAIN dialogHistory[Owner(id)][dialogs[id].workspace] :
                  dialogHistory[Owner(id)][dialogs[id].workspace][i].id = id

(***************************************************************************)
(* C6: a resolve attempt that returns notFound changes no pending set, no  *)
(* history and no counter and unblocks no submitter, and an attempt        *)
(* returns success only for an id that was pending where it arrived.       *)
(***************************************************************************)
C6_Step ==
    /\ lastResponse' = "notFound" =>
          UNCHANGED << dialogs, pendingDialogs, dialogHistory, dialogCounts,
                       microtasks, delivered >>
    /\ lastResponse' = "success" =>
          \E p \in Procs : \E id \in pendingDialogs[p] :
              id \notin pendingDialogs'[p]

C6_NotFoundNoEffect == [][C6_Step]_vars

\* notFound was returned while every submitted request is still pending: the
\* attempt reached a process the id was never submitted to
C6_Witness ==
    /\ lastResponse = "notFound"
    /\ dialogs # << >>
    /\ \A id \in DOMAIN dialogs : IsPending(id)

(***************************************************************************)
(* C7: a process with open folders that receives a submission claims it    *)
(* if and only if one of its folders, normalized, is the same directory as *)
(* the request's workspace, an ancestor of it or a descendant of it.       *)
(***************************************************************************)
C7_ContainmentRouting ==
    \A id \in DOMAIN dialogs :
        Len(folders[Owner(id)]) > 0 =>
            ( id \in claimed[Owner(id)]
                <=> \E i \in DOMAIN folders[Owner(id)] :
                       SameOrContaining(folders[Owner(id)][i], dialogs[id].workspace) )

(***************************************************************************)
(* C8: between events, a started process with no open folder has claimed   *)
(* every pending request, or (not being the listener) is about to on its   *)
(* next poll.                                                              *)
(***************************************************************************)
C8_NoWorkspaceClaimsAll ==
    \A p \in Procs :
        (Idle /\ started[p] /\ Len(folders[p]) = 0) =>
            \A q \in Procs : \A id \in pendingDialogs[q] :
                Listening(q) =>
                    \/ id \in claimed[p]
                    \/ (p # q /\ ENABLED PollTick(p))

(***************************************************************************)
(* C9: when the human answers a request in the editor panel of a process   *)
(* whose bind failed, the request leaves the pending set of the listener.  *)
(***************************************************************************)
C9_FollowerRelays ==
    [][\A p \in Procs : \A id \in currentPanels[p] :
          ( /\ started[p] /\ ~Listening(p)
            /\ id \notin currentPanels'[p]
            /\ lastResponse' # NoResponse )
          => ~(IsPending(id))']_vars

(***************************************************************************)
(* C10: a process that started while the endpoint was in use is not        *)
(* listening and is polling.                                               *)
(***************************************************************************)
C10_BindFailureMeansFollower ==
    \A p \in Procs :
        (started[p] /\ server[p] = "failed") => (~Listening(p) /\ polling[p])

(***************************************************************************)
(* C11: every started process with a folder open, whose listener was not   *)
(* stopped by the stopServer command, is either listening and not polling  *)
(* or polling and not listening, also after port changes and restarts.     *)
(***************************************************************************)
C11_LeaderOrFollower ==
    \A p \in Procs :
        (started[p] /\ server[p] # "null" /\ Len(folders[p]) > 0) =>
            \/ Listening(p) /\ ~polling[p]
            \/ ~Listening(p) /\ polling[p]

(***************************************************************************)
(* C12: a process with a folder open whose port changes to an endpoint     *)
(* that is occupied ends that step not listening and polling the new port. *)
(***************************************************************************)
C12_OccupiedPortMeansFollower ==
    [][\A p \in Procs :
          ( /\ started[p] /\ Len(folders[p]) > 0
            /\ port'[p] # port[p]
            /\ InUse(p, port'[p]) )
          => ( /\ server'[p] = "failed"
               /\ polling'[p]
               /\ pollPort'[p] = port'[p] )]_vars

(***************************************************************************)
(* C15: a request leaves the pending set only in a step whose resolve      *)
(* attempt returns success for it, its promise is resolved only in such a  *)
(* step, and while it is pending its submitter has received nothing:       *)
(* panel close, poll, port change, restart and stop remove nothing.        *)
(***************************************************************************)
C15_State ==
    \A id \in DOMAIN dialogs :
        IsPending(id) => (delivered[id] = NoResult /\ ~Settled(id))

C15_Step ==
    \A id \in DOMAIN dialogs :
        /\ (IsPending(id) /\ ~(IsPending(id))')
              => (lastResponse' = "success" /\ okCount'[id] = okCount[id] + 1)
        /\ (~Settled(id) /\ (Settled(id))')
              => (IsPending(id) /\ ~(IsPending(id))')
        /\ (delivered[id] = NoResult /\ delivered'[id] # NoResult)
              => okCount[id] >= 1

PendingQueries == { << >>, P_a, P_root, P_x }

C13_PendingListing ==
    \A q \in Procs : Listening(q) =>
        \A W \in PendingQueries :
            /\ PendingFor(q, W) =
                  IF W = << >> THEN pendingDialogs[q]
                  ELSE { id \in pendingDialogs[q] :
                           SameOrContaining(dialogs[id].workspace, W) }
            /\ \A id \in PendingFor(q, W) : okCount[id] = 0

(***************************************************************************)
(* C14: with timers firing, time passing and the human answering, every    *)
(* submitted request that the listener or a polling process would claim is *)
(* eventually shown to a human, in an editor panel or in a browser page.   *)
(***************************************************************************)
Attached(p) == Listening(p) \/ polling[p]

Eligible(id) ==
    /\ id \in DOMAIN dialogs
    /\ \E p \in Procs : Attached(p) /\ ShouldClaim(folders[p], dialogs[id].workspace)

C14_EventuallyPresented ==
    \A id \in Ids : [](Eligible(id) => <>(id \in presented))


(***************************************************************************)
(* C16: every initialize answered by a server carries the result payload   *)
(* of the first initialize that server answered and echoes the id of its   *)
(* own request, whatever the registry holds and whatever was called in     *)
(* between; answering it changes no pending set, dialog, history, counter, *)
(* queued continuation or delivered result.                                *)
(***************************************************************************)
C16_State ==
    (rpcLast # NoRpc /\ rpcLast.request.method = "initialize") =>
        /\ initResult[rpcLast.server] # NoRpc
        /\ rpcLast.response.result = initResult[rpcLast.server].result
        /\ rpcLast.response.id = rpcLast.request.id

C16_Step ==
    (rpcLast' # rpcLast /\ rpcLast'.request.method = "initialize") =>
        UNCHANGED registryVars

C16_InitializeIdempotent == [](C16_State) /\ [][C16_Step]_vars

\* the last message answered is a second initialize, with another id than
\* the first; a request is pending and another one is resolved and recorded
C16_Witness ==
    /\ rpcLast # NoRpc
    /\ rpcLast.request.method = "initialize"
    /\ initResult[rpcLast.server] # NoRpc
    /\ rpcLast.request.id # initResult[rpcLast.server].id
    /\ pendingDialogs[rpcLast.server] # {}
    /\ \E id \in DOMAIN dialogs : delivered[id] # NoResult
    /\ dialogHistory[rpcLast.server][P_Ab] # << >>

(***************************************************************************)
(* C17: the response of a tools/call resolved with shouldContinue = true   *)
(* has a text containing the userInput of the resolution and the content   *)
(* of every file and code attachment; the resolution makes the history of  *)
(* the request's workspace one entry longer, the new entry having          *)
(* continued = true.                                                       *)
(***************************************************************************)
\* String.prototype.includes on texts
Contains(text, part) ==
    \E i \in 0 .. (Len(text) - Len(part)) :
        SubSeq(text, i + 1, i + Len(part)) = part

ContinuedCall(id) ==
    /\ dialogs[id].via = "mcp"
    /\ delivered[id] # NoResult
    /\ delivered[id].shouldContinue

C17_Text ==
    \A id \in DOMAIN dialogs :
        ContinuedCall(id) =>
            LET text == ToolsCallResult(id).content[1].text
                atts == firstResult[id].attachments
            IN  /\ Contains(text, firstResult[id].userInput)
                /\ \A k \in DOMAIN atts :
                      atts[k].type \in { "file", "code" }
                          => Contains(text, atts[k].content)

C17_Step ==
    \A id \in DOMAIN dialogs :
        ( /\ dialogs[id].via = "mcp"
          /\ okCount[id] = 0
          /\ okCount'[id] = 1
          /\ firstResult'[id].shouldContinue )
        => LET old == dialogHistory[dialogs[id].owner][dialogs[id].workspace]
               new == dialogHistory'[dialogs[id].owner][dialogs[id].workspace]
           IN  /\ Len(new) = Len(old) + 1
               /\ new[Len(new)].continued

C17_ContinueResult == [](C17_Text) /\ [][C17_Step]_vars

(***************************************************************************)
(* C18: the response of a tools/call resolved with shouldContinue = false  *)
(* has the fixed stop directive as its text: any two such calls have the   *)
(* same text, whatever userInput and attachments came with the resolution. *)
(***************************************************************************)
StoppedCall(id) ==
    /\ dialogs[id].via = "mcp"
    /\ delivered[id] # NoResult
    /\ ~delivered[id].shouldContinue

C18_StopTextFixed ==
    \A i, j \in DOMAIN dialogs :
        (StoppedCall(i) /\ StoppedCall(j)) =>
            /\ ToolsCallResult(i).content[1].text = StopDirective
            /\ ToolsCallResult(i) = ToolsCallResult(j)

\* two calls stopped with different userInput and attachments
C18_Witness ==
    \E i, j \in DOMAIN dialogs :
        /\ StoppedCall(i) /\ StoppedCall(j)
        /\ delivered[i].userInput # delivered[j].userInput
        /\ delivered[i].attachments # delivered[j].attachments

(***************************************************************************)
(* C19: a message whose method is none of initialize, initialized,         *)
(* tools/list and tools/call is answered with the error -32601 echoing its *)
(* id when it has one and with no response when it has none; answering it  *)
(* changes no pending set, history or counter.                             *)
(***************************************************************************)
C19_State ==
    (rpcLast # NoRpc /\ rpcLast.request.method \in OtherMethods) =>
        IF rpcLast.request.id # Undefined
        THEN /\ rpcLast.response # NullResponse
             /\ rpcLast.response.id = rpcLast.request.id
             /\ rpcLast.response.error.code = MethodNotFound
        ELSE rpcLast.response = NullResponse

C19_Step ==
    (rpcLast' # rpcLast /\ rpcLast'.request.method \in OtherMethods) =>
        UNCHANGED << pendingDialogs, dialogHistory, dialogCounts >>

C19_UnknownMethod == [](C19_State) /\ [][C19_Step]_vars

\* a notification of an unknown method, left unanswered while a request is
\* pending
C19_Witness ==
    /\ rpcLast # NoRpc
    /\ rpcLast.request.method \in OtherMethods
    /\ rpcLast.request.id = Undefined
    /\ rpcLast.response = NullResponse
    /\ pendingDialogs[rpcLast.server] # {}

(***************************************************************************)
(* C20: a tools/call that names another tool than AI_chat_HITL, or none,   *)
(* is answered with a JSON-RPC error; it creates no dialog, adds nothing   *)
(* to the pending set and takes no sequence number.                        *)
(***************************************************************************)
IsErrorResponse(response) ==
    /\ response # NullResponse
    /\ "error" \in DOMAIN response
    /\ "result" \notin DOMAIN response

C20_State ==
    (rpcLast # NoRpc /\ rpcLast.request.method = "tools/call") =>
        /\ rpcLast.request.name # ToolName
        /\ IsErrorResponse(rpcLast.response)
        /\ rpcLast.response.id = rpcLast.request.id

C20_Step ==
    (rpcLast' # rpcLast /\ rpcLast'.request.method = "tools/call") =>
        UNCHANGED << dialogs, pendingDialogs, dialogCounts >>

C20_UnknownTool == [](C20_State) /\ [][C20_Step]_vars

\* the error for a tools/call without a tool name, after the published tool
\* has taken a sequence number
C20_Witness ==
    /\ rpcLast # NoRpc
    /\ rpcLast.request.method = "tools/call"
    /\ rpcLast.request.name = Undefined
    /\ IsErrorResponse(rpcLast.response)
    /\ dialogCounts[rpcLast.server][P_Ab] > 0

(***************************************************************************)
(* C21-C23: the three RPC servers compared on the wire.                    *)
(***************************************************************************)
WireLog == { wire.log[i] : i \in 1..Len(wire.log) }

\* the HTTP transports answer a body that is not JSON with the parse error
C21_Http ==
    \A e \in WireLog :
        e.body = Malformed /\ e.handler # "stdio" => e.response = ParseError

\* C21: on every transport (stdio frames, POST /message and its aliases,
\* POST /sse) a body that is not valid JSON is answered to the sender with
\* the JSON-RPC parse error
C21_ParseErrorAnswered ==
    \A e \in WireLog : e.body = Malformed => e.response = ParseError

\* the standalone servers, which reach the front end over HTTP
StandaloneServers == { "stdio", "standalone" }

\* a tools/call whose callDialog was rejected, as a standalone server answered it
RejectedCalls ==
    { e \in WireLog : e.handler \in StandaloneServers /\ IsRejection(e.outcome) }

\* C22: when callDialog of a standalone server fails (connection error or
\* unparseable reply) the tools/call is answered with a JSON-RPC error
\* response carrying the request's id and the tool-level code -32000, and
\* the server still takes the next message
C22_ToolLevelError ==
    \A e \in RejectedCalls :
        /\ IsErrorResponse(e.response)
        /\ e.response.id = e.body.id
        /\ e.response.error.code = ToolError
        /\ WireLoad < MaxWireLog =>
              ENABLED WireReceive(e.handler, e.path,
                                  [ method |-> "tools/list", id |-> "id-1" ],
                                  MaxWireLog)

\* a standalone server answered a rejected call with the error, then
\* answered a later request with a result; both kinds of rejection happened
C22_Witness ==
    /\ \E i, j \in 1..Len(wire.log) :
          /\ i < j
          /\ wire.log[i] \in RejectedCalls
          /\ wire.log[i].outcome = Garbled
          /\ wire.log[i].response.error.code = ToolError
          /\ wire.log[j].handler = wire.log[i].handler
          /\ "result" \in DOMAIN wire.log[j].response

\* the result or error member of a response
Payload(response) ==
    IF response = NullResponse THEN NullResponse
    ELSE IF "result" \in DOMAIN response THEN [ result |-> response.result ]
    ELSE [ error |-> response.error ]

\* C23: for the same JSON-RPC request and the same human resolution the
\* three handlers (stdio, standalone HTTP/SSE, embedded) return the same
\* result or error payload
C23_SamePayload ==
    \A e1, e2 \in WireLog :
        ( /\ e1.body # Malformed
          /\ e1.body = e2.body
          /\ e1.outcome = e2.outcome
          /\ ~IsRejection(e1.outcome) )
        => Payload(e1.response) = Payload(e2.response)

(***************************************************************************)
(* C24-C25: the fan-out to the GET /sse subscribers.                       *)
(***************************************************************************)
\* this step is a broadcast of server f: it answered a message on a path
\* that mirrors, with a response that is mirrored
Broadcasts(f) ==
    /\ Len(wire'.log) = Len(wire.log) + 1
    /\ LET e == wire'.log[Len(wire'.log)]
       IN  /\ e.handler = f
           /\ Mirrors(f, e.path)
           /\ e.response # NullResponse
           /\ e.response # ParseError

Broadcasted == wire'.log[Len(wire'.log)].response

\* a broadcast of f while the write to subscriber c fails removes c and
\* reaches every other subscriber
FailedWriteContained(f) ==
    \A c \in Subscribed(f) \cap sse.broken :
        Broadcasts(f) =>
           /\ c \notin Subscribed(f)'
           /\ \A d \in Subscribed(f) \ sse.broken :
                 sse'.received[d] =
                     Append(sse.received[d], MirroredEvent(f, Broadcasted))

\* the embedded server contains a failed write
C24_Embedded == [][FailedWriteContained("embedded")]_vars

\* C24: in every fan-out implementation a failed write of a mirrored
\* response removes that subscriber from the subscriber set, and every
\* other subscriber still receives the response
C24_FailedWriteContained == [][\A f \in FanOuts : FailedWriteContained(f)]_vars

\* the first event a subscriber of the embedded server has received is the
\* endpoint event, and no other event of it is one
HandshakeFirst ==
    \A c \in Subscribed("embedded") :
        /\ sse.received[c] # << >>
        /\ sse.received[c][1] = Handshake("embedded")
        /\ sse.received[c][1].event = "endpoint"
        /\ \A i \in 2..Len(sse.received[c]) : sse.received[c][i].event = "message"

\* this step, the embedded server answered a parsed request on one of paths
\* with a response that is not null
Answers(paths) ==
    /\ Len(wire'.log) = Len(wire.log) + 1
    /\ LET e == wire'.log[Len(wire'.log)]
       IN  /\ e.handler = "embedded"
           /\ e.path \in paths
           /\ e.body # Malformed
           /\ e.response # NullResponse

\* the response of this step is appended to what each subscriber whose
\* connection stands has received
MirroredToAll ==
    \A c \in Subscribed("embedded") \ sse.broken :
        sse'.received[c] =
            Append(sse.received[c], MirroredEvent("embedded", Broadcasted))

\* the responses to POST /message are mirrored after the handshake
C25_MessagePath ==
    []HandshakeFirst /\ [][Answers({ "/message" }) => MirroredToAll]_vars

\* C25: each push subscriber receives the endpoint handshake before any
\* mirrored response, and every non-null response the server produces while
\* it is subscribed, for a request posted to any of the JSON-RPC request
\* paths, is mirrored to it
C25_EveryResponseMirrored ==
    []HandshakeFirst /\ [][Answers(PostPaths["embedded"]) => MirroredToAll]_vars

(***************************************************************************)
(* C26: the keys of the counter and of the history.                        *)
(***************************************************************************)
\* the requests submitted to p up to id for the workspace of id, the
\* strings compared after normalization
SameWorkspaceUpTo(id) ==
    { j \in 1..id : /\ dialogs[j].owner = dialogs[id].owner
                    /\ NormalizePath(dialogs[j].workspace)
                          = NormalizePath(dialogs[id].workspace) }

\* C26: the counter and the history are keyed by the normalized workspace
\* path: submissions whose workspace strings differ only in letter case or
\* in slash versus backslash take their numbers from one counter and have
\* one history sequence
C26_NormalizedKeys ==
    /\ \A id \in DOMAIN dialogs :
          dialogs[id].count = Cardinality(SameWorkspaceUpTo(id))
    /\ \A p \in Procs, w1, w2 \in Workspaces :
          NormalizePath(w1) = NormalizePath(w2) =>
             dialogHistory[p][w1] = dialogHistory[p][w2]

(***************************************************************************)
(* C27-C30: the Follower (client polling mode).                            *)
(***************************************************************************)
\* the sequence numbers process p shows for id: the dialogCount its
\* handleDialogRequest saved and passed to the panel it opened
ShownCounts(p, id) ==
    { st.dialogCount : st \in { t \in pendingDialogStates[p] : t.id = id } }

\* the process whose registry holds a request shows the number it assigned
C27_Leader ==
    \A id \in DOMAIN dialogs :
        id \in currentPanels[dialogs[id].owner] =>
            ShownCounts(dialogs[id].owner, id) = { dialogs[id].count }

\* C27: whichever process presents a request (the Leader directly, or a
\* Follower that obtained it by polling), the sequence number shown equals
\* the one the Leader's registry assigned at submission
C27_ShownCountIsAssigned ==
    \A p \in Procs, id \in DOMAIN dialogs :
        id \in currentPanels[p] => ShownCounts(p, id) = { dialogs[id].count }

\* the ids of the states process p has saved
SavedIds(p) == { st.id : st \in pendingDialogStates[p] }

\* this step, process p ran handleDialogRequest for id: the state of id
\* is saved anew or its panel opens
Surfaces(p, id) ==
    \/ id \in SavedIds(p)' \ SavedIds(p)
    \/ id \in currentPanels'[p] \ currentPanels[p]

\* the reply to the poll of p holds id
Returned(p, id) ==
    /\ Len(folders[p]) > 0
    /\ \E q \in Procs : /\ Listening(q) /\ port[q] = pollPort[p]
                         /\ id \in PendingFor(q, folders[p][1])

\* C28: a Follower surfaces a polled request at most once: the step that
\* puts an id into the seen set runs the presentation path for it, and no
\* step runs it again while the id is in the seen set
C28_SurfacedOnce ==
    [][\A p \in Procs, id \in Ids :
          /\ id \in processedDialogIds'[p] \ processedDialogIds[p]
                => id \in SavedIds(p)'
          /\ id \in processedDialogIds[p] => ~Surfaces(p, id)]_vars

\* a poll of the Follower would return an id it has seen, after the panel it
\* had opened for it was closed
C28_Witness ==
    \E p \in Procs, id \in Ids :
        /\ polling[p]
        /\ Returned(p, id)
        /\ id \in processedDialogIds[p]
        /\ id \in claimed[p]
        /\ id \notin currentPanels[p]
        /\ id \notin SavedIds(p)

\* the human of process p answers id in the panel this step
AnswersInPanel(p, id) ==
    /\ id \in currentPanels[p]
    /\ id \notin currentPanels'[p]
    /\ lastResponse' # NoResponse

\* the Leader that process p polls holds id as pending
LeaderHolds(p, id) ==
    \E q \in Procs : /\ Listening(q) /\ port[q] = pollPort[p]
                      /\ id \in pendingDialogs[q]

Reachable(p) == \E q \in Procs : Listening(q) /\ port[q] = pollPort[p]

\* when the Leader is reachable from some time on, a pending request that
\* the Leader returns to the polls of the Follower is surfaced by the
\* Follower, unless the Leader ceases to return it
PollRetried(p, id) ==
    <>[]Reachable(p) =>
        []( (polling[p] /\ Returned(p, id))
            => <>(id \in processedDialogIds[p] \/ ~Returned(p, id)) )

\* when the Leader is reachable from some time on, what the Follower's human
\* answered while the Leader could not be reached gets to the Leader
RelayRetried(p, id) ==
    <>[]Reachable(p) =>
        []( (polling[p] /\ id \in answered[p] /\ ~Reachable(p))
            => <>(id \in DOMAIN dialogs /\ ~IsPending(id)) )

\* the polls are retried
C30_Polls == \A p \in Procs, id \in Ids : PollRetried(p, id)

\* C30: a failed poll or a failed relay leaves the Follower running and is
\* retried: once the Leader is reachable again, matching pending requests
\* are surfaced and a resolution whose relay had failed is delivered
C30_RetriedWhenReachable ==
    \A p \in Procs, id \in Ids : PollRetried(p, id) /\ RelayRetried(p, id)

(***************************************************************************)
(* C31: polling (GET /pending, with or without a workspace filter) never   *)
(* changes the Leader's pending set, history or counters, and a Follower   *)
(* changes Leader state only through POST /respond.                        *)
(***************************************************************************)
\* the registry of process q: pending set, counters and history
Registry(q) == << pendingDialogs[q], dialogCounts[q], dialogHistory[q] >>

\* this step answered a GET /pending
PendingAnswered == rpcLast' # rpcLast /\ "get" \in DOMAIN rpcLast'

\* this step, the poller of process p took a reply
Polled(p) == processedDialogIds'[p] # processedDialogIds[p]

\* this step, process p handled something in its own window
ActsLocally(p) == FrontEnd(p)' # FrontEnd(p) \/ answered'[p] # answered[p]

\* a GET /pending and a tick of a poller leave every registry and every
\* request unchanged; what a process does in its window leaves the registry
\* of every other process unchanged; a registry changes only by a
\* submission, an accepted resolve or the continuation of a submitter
C31_PollingReadsOnly ==
    [][/\ (PendingAnswered \/ \E p \in Procs : Polled(p))
            => UNCHANGED << dialogs, pendingDialogs, dialogCounts, dialogHistory >>
       /\ \A p \in Procs : ActsLocally(p) =>
            \A q \in Procs \ {p} : Registry(q)' = Registry(q)
       /\ \A q \in Procs : Registry(q)' # Registry(q) =>
            \/ Len(dialogs') > Len(dialogs)
            \/ lastResponse' = Response(TRUE)
            \/ Len(microtasks') < Len(microtasks)]_vars

\* a Follower has taken a request from its poll, a GET /pending without
\* filter has listed it, and the Leader still holds it
C31_Witness ==
    \E p \in Procs, id \in Ids :
        /\ polling[p]
        /\ id \in processedDialogIds[p]
        /\ id \in claimed[p]
        /\ "get" \in DOMAIN rpcLast
        /\ rpcLast.workspace = << >>
        /\ id \in rpcLast.dialogs
        /\ LeaderHolds(p, id)

(***************************************************************************)
(* C32: restoring the saved pending-dialog states at startup only          *)
(* repopulates display state: it adds nothing to the pending registry or   *)
(* to history and never resolves or unblocks any request.                  *)
(***************************************************************************)
\* this step is the activate of process p
Activates(p) == ~started[p] /\ started'[p]

\* the step in which a process activates and restores leaves every
\* request, pending set, counter and history, every queued continuation
\* and everything delivered as it was, opens no panel, and the restored
\* states are the saved ones
C32_RestoreOnlyDisplays ==
    [][\A p \in Procs : Activates(p) =>
          /\ UNCHANGED << dialogs, pendingDialogs, dialogCounts, dialogHistory,
                          microtasks, delivered, okCount, firstResult >>
          /\ UNCHANGED << currentPanels, claimed >>
          /\ pendingDialogStates'[p] = globalState]_vars

\* a restarted process shows the state of a request it does not hold;
\* the submitter of the request has received nothing
C32_Witness ==
    \E p \in Procs : \E st \in pendingDialogStates[p] :
        /\ started[p]
        /\ st.id \in DOMAIN dialogs
        /\ Owner(st.id) = p
        /\ st.id \notin pendingDialogs[p]
        /\ okCount[st.id] = 0
        /\ delivered[st.id] = NoResult

(***************************************************************************)
(* C33: the tools/call result text for a continuing resolution renders the *)
(* attachments in the order in which they appear in the resolution, with   *)
(* one rendering per image, file or code attachment.                       *)
(***************************************************************************)
\* the pieces that open the rendering of an attachment, and its type
MarkerType ==
    [ m \in { "- [image] ", "- [file] ", "- [code] " } |->
        CASE m = "- [image] " -> "image"
          [] m = "- [file] "  -> "file"
          [] m = "- [code] "  -> "code" ]

\* the name that follows the marker at position i: up to the line end
NameAt(text, i) ==
    LET end == Min({ j \in i + 1 .. Len(text) : text[j] = "\n" })
    IN  SubSeq(text, i + 1, end - 1)

\* the renderings read off a result text from position i on, in text order
RECURSIVE RenderedFrom(_, _)
RenderedFrom(text, i) ==
    IF i > Len(text) THEN << >>
    ELSE IF text[i] \in DOMAIN MarkerType
         THEN << [ type |-> MarkerType[text[i]], name |-> NameAt(text, i) ] >>
                 \o RenderedFrom(text, i + 1)
         ELSE RenderedFrom(text, i + 1)

\* type and name of the attachments of a resolution, in its order
AttachedInOrder(atts) == [ i \in DOMAIN atts |-> [ type |-> atts[i].type, name |-> atts[i].name ] ]

\* the tools/call answered with a continuing resolution
ContinuedCalls ==
    { i \in DOMAIN wire.log :
        /\ wire.log[i].body = KnownCall
        /\ wire.log[i].outcome \in AttResolutions }

C33_AttachmentOrder ==
    \A i \in ContinuedCalls :
        RenderedFrom(wire.log[i].response.result.content[1].text, 1)
            = AttachedInOrder(wire.log[i].outcome.attachments)

\* the embedded server answered a call whose resolution carries a code
\* attachment before a file attachment
C33_Witness ==
    \E i \in ContinuedCalls :
        /\ wire.log[i].handler = "embedded"
        /\ wire.log[i].outcome.attachments = << A_code, A_file >>

(***************************************************************************)
(* C34: the stdio reader dispatches each Content-Length framed message     *)
(* exactly once and in order, for every split of the input stream into     *)
(* chunks and for bodies containing multi-byte characters, where           *)
(* Content-Length is the body's byte length as sendResponse writes it.     *)
(***************************************************************************)
\* what was passed to handleRequest is a prefix of what the client wrote,
\* nothing was dropped as unparseable, and when every chunk has arrived
\* every message has been passed on
C34_FramesDispatchedOnce ==
    /\ IsPrefix(stdin.dispatched, stdin.sent)
    /\ stdin.failed = 0
    /\ stdin.rest = << >> => stdin.dispatched = stdin.sent

(***************************************************************************)
(* C35: the two submission paths of the Leader (POST /dialog and           *)
(* callDialogInternal of tools/call) are equivalent: for the same sequence *)
(* of submissions and resolutions they produce the same pending set, the   *)
(* same counters, the same history and the same resolution delivered to    *)
(* the submitter.                                                          *)
(***************************************************************************)
\* the effect of a submission, stated without the path it came by
SubmissionEffect(id) ==
    LET d == dialogs'[id]
    IN  /\ d.count = dialogCounts[d.owner][d.workspace] + 1
        /\ d.history = dialogHistory[d.owner][d.workspace]
        /\ dialogCounts' = [dialogCounts EXCEPT ![d.owner][d.workspace] = d.count]
        /\ pendingDialogs' = [pendingDialogs EXCEPT ![d.owner] = @ \cup { id }]
        /\ UNCHANGED << dialogHistory, delivered, microtasks >>

\* the state once the submitter of id has its resolution, stated without
\* the path: the first accepted resolution, the history item appended to
\* the history captured at the submission, the request no longer pending
DeliveryEffect(id) ==
    /\ delivered'[id] = firstResult[id]
    /\ dialogHistory' = SaveHistory(id, firstResult[id])
    /\ id \notin pendingDialogs'[Owner(id)]
    /\ UNCHANGED << dialogCounts, pendingDialogs, dialogs >>

\* when the event loop is idle, the history of a workspace is empty or is
\* the captured history of a delivered request plus its item
HistoriesOfDelivered ==
    Idle => \A p \in Procs, w \in Workspaces :
        \/ dialogHistory[p][w] = << >>
        \/ \E id \in DOMAIN dialogs :
              /\ Owner(id) = p /\ dialogs[id].workspace = w
              /\ delivered[id] # NoResult
              /\ dialogHistory[p][w]
                    = Append(dialogs[id].history, HistoryItem(id, delivered[id]))

C35_SubmissionPathsAgree ==
    /\ []HistoriesOfDelivered
    /\ [][/\ \A id \in DOMAIN dialogs' \ DOMAIN dialogs : SubmissionEffect(id)
          /\ \A id \in DOMAIN dialogs :
                delivered'[id] # delivered[id] => DeliveryEffect(id)]_vars

\* a request of each path, submitted for the same workspace while the
\* other was pending, has been resolved and delivered
C35_Witness ==
    /\ Idle
    /\ \E i, j \in DOMAIN dialogs :
          /\ dialogs[i].via = "http" /\ dialogs[j].via = "mcp"
          /\ dialogs[i].workspace = dialogs[j].workspace
          /\ dialogs[i].count # dialogs[j].count
          /\ dialogs[i].history = dialogs[j].history
          /\ delivered[i] # NoResult /\ delivered[j] # NoResult

(***************************************************************************)
(* C36: changing the port, stopping or restarting the Leader's listener    *)
(* leaves the pending set, every history and every counter unchanged, and  *)
(* a request that was pending before the change can still be resolved by   *)
(* respondToDialog afterwards, unblocking its submitter.                   *)
(***************************************************************************)
\* this step changes the port setting, or the port or the listener of a
\* process that is running
ListenerChanges ==
    /\ started' = started
    /\ server' # server \/ port' # port \/ configPort' # configPort

\* the listener of process p does not listen on the port it was started on
ListenerChanged(p) == started[p] /\ (server[p] # "listening" \/ port[p] # DefaultPort)

\* the continuation of the submitter of id is queued
Unblocked(id) == \E i \in DOMAIN microtasks : microtasks[i].id = id

\* whatever its listener does, a process can call respondToDialog from the
\* panel of a request it holds
C36_State ==
    \A p \in Procs, id \in Ids :
        (Idle /\ id \in pendingDialogs[p] /\ id \in currentPanels[p])
            => ENABLED PanelRespond(p, id, R_continue)

C36_Step ==
    /\ ListenerChanges =>
          UNCHANGED << dialogs, pendingDialogs, dialogCounts, dialogHistory,
                       microtasks, delivered >>
    /\ \A p \in Procs, id \in Ids :
          (AnswersInPanel(p, id) /\ id \in pendingDialogs[p])
             => /\ lastResponse' = Response(TRUE)
                /\ Unblocked(id)'
                /\ id \notin pendingDialogs'[p]
    /\ \A id \in Ids :
          (Unblocked(id) /\ ~Unblocked(id)') => delivered'[id] = firstResult[id]

C36_ListenerChangesKeepRegistry == []C36_State /\ [][C36_Step]_vars

\* the continuation of a submitter is queued by a resolve that came after
\* the listener of the process was stopped
C36_Witness ==
    \E id \in DOMAIN dialogs :
        /\ Unblocked(id)
        /\ started[Owner(id)]
        /\ server[Owner(id)] = "null"
        /\ dialogCounts[Owner(id)][dialogs[id].workspace] = dialogs[id].count

(***************************************************************************)
(* C37: every entry of the saved pending-dialog states                     *)
(* (DialogPanel.pendingDialogStates) belongs to a request that is still    *)
(* pending: once a request is resolved, by any route and in either         *)
(* presentation mode, its entry is removed before the next save.           *)
(***************************************************************************)
\* between two events, a process holds no state of a request that has
\* been resolved
C37_State ==
    Idle => \A p \in Procs : \A st \in pendingDialogStates[p] :
                okCount[st.id] = 0

\* a save writes no state of a request that has been resolved
C37_Step ==
    globalState' # globalState =>
        \A st \in globalState' : okCount'[st.id] = 0

C37_SavedStatesArePending == []C37_State /\ [][C37_Step]_vars

(***************************************************************************)
(* C38: in editor-panel mode, a request that a front end has claimed and   *)
(* that is still pending in the registry always has an open panel in that  *)
(* front end (its id is in DialogPanel.currentPanels), so that a human can *)
(* still answer it.                                                        *)
(***************************************************************************)
C38_ClaimedPendingHasPanel ==
    ~openInBrowser =>
        \A p \in Procs : \A id \in claimed[p] :
            IsPending(id) => id \in currentPanels[p]

(***************************************************************************)
(* C39: the containment match is symmetric and respects path-component     *)
(* boundaries: for all paths a and b, match(a, b) = match(b, a), and a     *)
(* path matches another as ancestor only at a separator ("/a/b" does not   *)
(* match "/a/bc").                                                         *)
(***************************************************************************)
\* the value of ?workspace= of the last GET /pending
Queried ==
    IF "get" \in DOMAIN rpcLast /\ rpcLast.workspace # << >>
    THEN { rpcLast.workspace } ELSE {}

\* the paths the match has been applied to: folders of the windows,
\* workspaces of the requests and the last query
MatchedPaths ==
    UNION { { folders[p][i] : i \in DOMAIN folders[p] } : p \in Procs }
        \cup { dialogs[id].workspace : id \in DOMAIN dialogs }
        \cup Queried

\* both tests give the same answer in both directions, and they match only
\* when the directories of one path are the leading directories of the other
C39_SymmetricAtBoundaries ==
    \A a \in MatchedPaths, b \in MatchedPaths :
        /\ FolderMatches(a, b) = FolderMatches(b, a)
        /\ PendingFilter(a, b) = PendingFilter(b, a)
        /\ FolderMatches(a, b) => SameOrContaining(a, b)
        /\ PendingFilter(a, b) => SameOrContaining(a, b)

\* the Leader, opened on "/a/bc", has not claimed a request for "/A\b", and
\* a GET /pending for "/a/bc" has not listed it; a request for it is listed
\* for "/a"
C39_Witness ==
    \E p \in Procs, id \in DOMAIN dialogs :
        /\ Owner(id) = p
        /\ folders[p] = << P_abc >>
        /\ dialogs[id].workspace = P_Ab
        /\ id \notin claimed[p]
        /\ Queried = { P_abc }
        /\ rpcLast.get = "/pending"
        /\ rpcLast.dialogs = {}
        /\ PendingFor(p, P_a) = { id }

(***************************************************************************)
(* C40: every place that selects pending requests for a workspace uses the *)
(* same predicate: for any request workspace and any single local          *)
(* workspace, the Leader's local claim decision (handleDialogRequest), the *)
(* GET /pending?workspace= filter and the manage page's pending list       *)
(* select the same requests.                                               *)
(***************************************************************************)
\* the pending requests of q that a window opened on the one folder
\* workspace would claim
ClaimedFor(q, workspace) ==
    { id \in pendingDialogs[q] : ShouldClaim(<< workspace >>, dialogs[id].workspace) }

C40_SamePredicateEverywhere ==
    \A q \in Procs : Listening(q) =>
        \A w \in MatchedPaths :
            /\ PendingFor(q, w) = ClaimedFor(q, w)
            /\ ManagePending(q, w) = ClaimedFor(q, w)

=============================================================================
